---- MODULE Spec2Model ----
(***************************************************************************)
(* Equipment Tracker.                                                      *)
(*                                                                         *)
(* Backend: the equipment table (db/database.ts), the payload validation   *)
(* and the four CRUD handlers of controllers/equipment.controller.ts.      *)
(* Frontend: the state of App.tsx with its filter and sort pipeline.       *)
(* Each specification below moves the variables of one component and       *)
(* leaves the others at their initial values.                              *)
(*                                                                         *)
(* JavaScript strings are sequences of one-character strings, so that      *)
(* trim(), the ISO_DATE_REGEX test and Number() are computed character by  *)
(* character.  A JavaScript value is a record [t, s]: t is its typeof and  *)
(* s its characters when it is a string.                                   *)
(*                                                                         *)
(* Store calls (dbAll, dbGet, dbRun) are modelled as succeeding: the       *)
(* catch branches that answer 500 on a rejected store promise are not      *)
(* part of the model.                                                      *)
(***************************************************************************)
EXTENDS Integers, Sequences, FiniteSets, TLC

VARIABLES
    store,   \* the rows of table equipment
    seq,     \* sqlite_sequence.seq of table equipment
    req,     \* the request being answered, NoReq between requests
    res,     \* the response to req
    issued   \* history: the ids returned by 201 responses so far

\* App.tsx
VARIABLES
    equipment,           \* useState<Equipment[]>([])
    searchQuery,         \* useState('')
    statusFilter,        \* useState<StatusFilter>('All')
    sortOption,          \* useState<SortOption>('nameAsc')
    displayedEquipment   \* useMemo over the four above

\* components/EquipmentForm.tsx
VARIABLES
    initialData,       \* props.initialData, <<>> when it is null
    formData,          \* useState<EquipmentFormData>
    submitAttempted,   \* useState(false)
    onSubmitCall,      \* the submit event being handled and its call of props.onSubmit
    today              \* the current date of the browser

\* services/api.ts and the error banner of App.tsx
VARIABLES
    fetchOutcome,      \* how the fetch of the request in hand ended
    error              \* useState<string | null>: <<>> for null, <<text>> otherwise

\* the asynchronous handlers of App.tsx
VARIABLES
    loading,           \* useState(false)
    editingEquipment,  \* useState<Equipment | null>: <<>> for null, <<record>> otherwise
    isFormVisible,     \* useState(false)
    tasks              \* the calls of loadEquipment, handleSubmit and handleDelete

\* the handlers of the controller, one store call at a time
VARIABLES
    procs              \* the requests in progress: where each handler stands

backendVars == <<store, seq, req, res, issued>>

displayVars == <<equipment, searchQuery, statusFilter, sortOption, displayedEquipment>>

formVars == <<initialData, formData, submitAttempted, onSubmitCall, today>>

bannerVars == <<fetchOutcome, error>>

clientVars == <<loading, editingEquipment, isFormVisible, tasks>>

raceVars == <<procs>>

vars == <<backendVars, displayVars, formVars, bannerVars, clientVars, raceVars>>

\* what the handlers of the backend leave alone
notBackend == <<displayVars, formVars, bannerVars, clientVars, raceVars>>

\* what EquipmentForm leaves alone
notForm == <<backendVars, displayVars, bannerVars, clientVars, raceVars>>

\* what the asynchronous handlers of App leave alone
notClient == <<searchQuery, statusFilter, sortOption, formVars, fetchOutcome, raceVars>>

\* what the handlers leave alone when they run one store call at a time
notRace == <<req, res, issued, displayVars, formVars, bannerVars, clientVars>>

(***************************************************************************)
(* Bounds                                                                  *)
(***************************************************************************)
\* the largest number of calls of handleSubmit and handleDelete in a run
MaxActions == 2

\* the largest number of requests the backend has in progress at a time
MaxProcs == 2

\* the largest id the table hands out in the model
MaxId == 3

(***************************************************************************)
(* JavaScript values and strings                                           *)
(***************************************************************************)
Str(chars) == [t |-> "string", s |-> chars]

Undefined == [t |-> "undefined", s |-> <<>>]

NumberValue == [t |-> "number", s |-> <<>>]

IsWhitespace(c) == c \in {" ", "\t", "\n"}

IsDigit(c) == c \in {"0", "1", "2", "3", "4", "5", "6", "7", "8", "9"}

DigitValue(c) ==
    CASE c = "0" -> 0 [] c = "1" -> 1 [] c = "2" -> 2 [] c = "3" -> 3
      [] c = "4" -> 4 [] c = "5" -> 5 [] c = "6" -> 6 [] c = "7" -> 7
      [] c = "8" -> 8 [] c = "9" -> 9

RECURSIVE TrimStart(_)
TrimStart(s) ==
    IF s # <<>> /\ IsWhitespace(Head(s)) THEN TrimStart(Tail(s)) ELSE s

RECURSIVE TrimEnd(_)
TrimEnd(s) ==
    IF s # <<>> /\ IsWhitespace(s[Len(s)])
    THEN TrimEnd(SubSeq(s, 1, Len(s) - 1))
    ELSE s

\* String.prototype.trim
Trim(s) == TrimEnd(TrimStart(s))

AllDigits(s) == \A i \in 1..Len(s) : IsDigit(s[i])

RECURSIVE DecimalValue(_)
DecimalValue(s) ==
    IF s = <<>> THEN 0
    ELSE 10 * DecimalValue(SubSeq(s, 1, Len(s) - 1)) + DigitValue(s[Len(s)])

NaN == [nan |-> TRUE, integer |-> FALSE, val |-> 0]

DotAt(s) == IF \E i \in 1..Len(s) : s[i] = "."
            THEN CHOOSE i \in 1..Len(s) : s[i] = "." /\ \A j \in 1..(i - 1) : s[j] # "."
            ELSE 0

\* unsigned decimal literal: digits, optionally "." and digits
UnsignedNumber(s) ==
    LET d == DotAt(s)
        ip == IF d = 0 THEN s ELSE SubSeq(s, 1, d - 1)
        fp == IF d = 0 THEN <<>> ELSE SubSeq(s, d + 1, Len(s))
    IN  IF Len(ip) + Len(fp) = 0 \/ ~AllDigits(ip) \/ ~AllDigits(fp)
        THEN NaN
        ELSE [nan |-> FALSE,
              integer |-> \A i \in 1..Len(fp) : fp[i] = "0",
              val |-> DecimalValue(ip)]

\* Number(value) of a string over digits, ".", "+", "-", white space and
\* letters that start no numeric literal: val is the value truncated
\* toward zero, integer tells whether the value is an integer.
ToNumber(s) ==
    LET t == Trim(s)
    IN  IF t = <<>> THEN [nan |-> FALSE, integer |-> TRUE, val |-> 0]
        ELSE IF Head(t) = "-"
             THEN LET u == UnsignedNumber(Tail(t))
                  IN  [u EXCEPT !.val = 0 - u.val]
             ELSE IF Head(t) = "+" THEN UnsignedNumber(Tail(t))
             ELSE UnsignedNumber(t)

\* a string matching the date pattern names a day of the calendar
IsCalendarDate(s) ==
    LET year == DecimalValue(SubSeq(s, 1, 4))
        month == DecimalValue(SubSeq(s, 6, 7))
        day == DecimalValue(SubSeq(s, 9, 10))
        leap == (year % 4 = 0 /\ year % 100 # 0) \/ year % 400 = 0
        days == IF month = 2 THEN (IF leap THEN 29 ELSE 28)
                ELSE IF month \in {4, 6, 9, 11} THEN 30 ELSE 31
    IN  month \in 1..12 /\ day \in 1..days

(***************************************************************************)
(* Controller constants                                                    *)
(***************************************************************************)
S_Machine == <<"M", "a", "c", "h", "i", "n", "e">>
S_Vessel == <<"V", "e", "s", "s", "e", "l">>
S_Tank == <<"T", "a", "n", "k">>
S_Mixer == <<"M", "i", "x", "e", "r">>
S_Active == <<"A", "c", "t", "i", "v", "e">>
S_Inactive == <<"I", "n", "a", "c", "t", "i", "v", "e">>
S_UnderMaintenance ==
    <<"U", "n", "d", "e", "r", " ", "M", "a", "i", "n", "t", "e", "n", "a", "n", "c", "e">>

TYPE_OPTIONS == {S_Machine, S_Vessel, S_Tank, S_Mixer}

STATUS_OPTIONS == {S_Active, S_Inactive, S_UnderMaintenance}

\* variant: the pattern also asks for a day of the calendar
ISO_DATE_REGEX_Calendar(s) ==
    /\ Len(s) = 10
    /\ \A i \in {1, 2, 3, 4, 6, 7, 9, 10} : IsDigit(s[i])
    /\ s[5] = "-"
    /\ s[8] = "-"
    /\ IsCalendarDate(s)

\* /^\d{4}-\d{2}-\d{2}$/ .test(s)
ISO_DATE_REGEX(s) ==
    /\ Len(s) = 10
    /\ \A i \in {1, 2, 3, 4, 6, 7, 9, 10} : IsDigit(s[i])
    /\ s[5] = "-"
    /\ s[8] = "-"

NoId == 0

\* parseId: null is NoId
parseId(value) ==
    LET parsed == ToNumber(value)
    IN  IF parsed.nan \/ ~parsed.integer \/ parsed.val <= 0
        THEN NoId
        ELSE parsed.val

NoData == [name |-> <<>>, type |-> <<>>, status |-> <<>>, lastCleanedDate |-> <<>>]

Fail(msg) == [ok |-> FALSE, message |-> msg, data |-> NoData]

\* variant: name is stored as sent, white space included
validatePayload_KeepsPadding(body) ==
    IF ~body.isRecord THEN Fail("Invalid request body.")
    ELSE IF body.name.t # "string" \/ Len(Trim(body.name.s)) < 2
    THEN Fail("Name is required and must be at least 2 characters.")
    ELSE IF body.type.t # "string" \/ body.type.s \notin TYPE_OPTIONS
    THEN Fail("Type is required and must be a valid option.")
    ELSE IF body.status.t # "string" \/ body.status.s \notin STATUS_OPTIONS
    THEN Fail("Status is required and must be a valid option.")
    ELSE IF body.lastCleanedDate.t # "string" \/ Len(Trim(body.lastCleanedDate.s)) = 0
    THEN Fail("Last cleaned date is required.")
    ELSE IF ~ISO_DATE_REGEX(Trim(body.lastCleanedDate.s))
    THEN Fail("Last cleaned date must be in YYYY-MM-DD format.")
    ELSE [ok |-> TRUE, message |-> "",
          data |-> [name |-> body.name.s,
                    type |-> body.type.s,
                    status |-> body.status.s,
                    lastCleanedDate |-> Trim(body.lastCleanedDate.s)]]

\* variant: type is only asked to be a string
validatePayload_NoTypeCheck(body) ==
    IF ~body.isRecord THEN Fail("Invalid request body.")
    ELSE IF body.name.t # "string" \/ Len(Trim(body.name.s)) < 2
    THEN Fail("Name is required and must be at least 2 characters.")
    ELSE IF body.type.t # "string"
    THEN Fail("Type is required and must be a valid option.")
    ELSE IF body.status.t # "string" \/ body.status.s \notin STATUS_OPTIONS
    THEN Fail("Status is required and must be a valid option.")
    ELSE IF body.lastCleanedDate.t # "string" \/ Len(Trim(body.lastCleanedDate.s)) = 0
    THEN Fail("Last cleaned date is required.")
    ELSE IF ~ISO_DATE_REGEX(Trim(body.lastCleanedDate.s))
    THEN Fail("Last cleaned date must be in YYYY-MM-DD format.")
    ELSE [ok |-> TRUE, message |-> "",
          data |-> [name |-> Trim(body.name.s),
                    type |-> body.type.s,
                    status |-> body.status.s,
                    lastCleanedDate |-> Trim(body.lastCleanedDate.s)]]

\* variant: status is only asked to be a string
validatePayload_NoStatusCheck(body) ==
    IF ~body.isRecord THEN Fail("Invalid request body.")
    ELSE IF body.name.t # "string" \/ Len(Trim(body.name.s)) < 2
    THEN Fail("Name is required and must be at least 2 characters.")
    ELSE IF body.type.t # "string" \/ body.type.s \notin TYPE_OPTIONS
    THEN Fail("Type is required and must be a valid option.")
    ELSE IF body.status.t # "string"
    THEN Fail("Status is required and must be a valid option.")
    ELSE IF body.lastCleanedDate.t # "string" \/ Len(Trim(body.lastCleanedDate.s)) = 0
    THEN Fail("Last cleaned date is required.")
    ELSE IF ~ISO_DATE_REGEX(Trim(body.lastCleanedDate.s))
    THEN Fail("Last cleaned date must be in YYYY-MM-DD format.")
    ELSE [ok |-> TRUE, message |-> "",
          data |-> [name |-> Trim(body.name.s),
                    type |-> body.type.s,
                    status |-> body.status.s,
                    lastCleanedDate |-> Trim(body.lastCleanedDate.s)]]

\* variant: the date is only asked to be non-empty
validatePayload_NoDatePattern(body) ==
    IF ~body.isRecord THEN Fail("Invalid request body.")
    ELSE IF body.name.t # "string" \/ Len(Trim(body.name.s)) < 2
    THEN Fail("Name is required and must be at least 2 characters.")
    ELSE IF body.type.t # "string" \/ body.type.s \notin TYPE_OPTIONS
    THEN Fail("Type is required and must be a valid option.")
    ELSE IF body.status.t # "string" \/ body.status.s \notin STATUS_OPTIONS
    THEN Fail("Status is required and must be a valid option.")
    ELSE IF body.lastCleanedDate.t # "string" \/ Len(Trim(body.lastCleanedDate.s)) = 0
    THEN Fail("Last cleaned date is required.")
    ELSE [ok |-> TRUE, message |-> "",
          data |-> [name |-> Trim(body.name.s),
                    type |-> body.type.s,
                    status |-> body.status.s,
                    lastCleanedDate |-> Trim(body.lastCleanedDate.s)]]

validatePayload(body) ==
    IF ~body.isRecord THEN Fail("Invalid request body.")
    ELSE IF body.name.t # "string" \/ Len(Trim(body.name.s)) < 2
    THEN Fail("Name is required and must be at least 2 characters.")
    ELSE IF body.type.t # "string" \/ body.type.s \notin TYPE_OPTIONS
    THEN Fail("Type is required and must be a valid option.")
    ELSE IF body.status.t # "string" \/ body.status.s \notin STATUS_OPTIONS
    THEN Fail("Status is required and must be a valid option.")
    ELSE IF body.lastCleanedDate.t # "string" \/ Len(Trim(body.lastCleanedDate.s)) = 0
    THEN Fail("Last cleaned date is required.")
    ELSE IF ~ISO_DATE_REGEX(Trim(body.lastCleanedDate.s))
    THEN Fail("Last cleaned date must be in YYYY-MM-DD format.")
    ELSE [ok |-> TRUE, message |-> "",
          data |-> [name |-> Trim(body.name.s),
                    type |-> body.type.s,
                    status |-> body.status.s,
                    lastCleanedDate |-> Trim(body.lastCleanedDate.s)]]

(***************************************************************************)
(* The equipment table (db/database.ts)                                    *)
(***************************************************************************)
Max(a, b) == IF a >= b THEN a ELSE b

MaxRowId(rows) ==
    IF rows = {} THEN 0
    ELSE CHOOSE m \in {r.id : r \in rows} : \A r \in rows : r.id <= m

\* variant: INTEGER PRIMARY KEY without AUTOINCREMENT, one more than the
\* largest rowid now in the table
NextRowId_MaxPlusOne(rows, sq) == MaxRowId(rows) + 1

\* id INTEGER PRIMARY KEY AUTOINCREMENT: one more than the largest rowid
\* the table has ever held (sqlite_sequence), deleted rows included
NextRowId(rows, sq) == Max(sq, MaxRowId(rows)) + 1

\* variant: ORDER BY id DESC
RECURSIVE OrderByIdDesc(_)
OrderByIdDesc(rows) ==
    IF rows = {} THEN <<>>
    ELSE LET first == CHOOSE r \in rows : \A o \in rows : r.id >= o.id
         IN  <<first>> \o OrderByIdDesc(rows \ {first})

RECURSIVE OrderByIdAsc(_)
OrderByIdAsc(rows) ==
    IF rows = {} THEN <<>>
    ELSE LET first == CHOOSE r \in rows : \A o \in rows : r.id <= o.id
         IN  <<first>> \o OrderByIdAsc(rows \ {first})

\* dbAll('SELECT ... FROM equipment ORDER BY id ASC')
dbAll(rows) == OrderByIdAsc(rows)

\* dbGet('SELECT ... FROM equipment WHERE id = ?'): <<>> is undefined
dbGet(rows, id) ==
    IF \E r \in rows : r.id = id
    THEN <<CHOOSE r \in rows : r.id = id>>
    ELSE <<>>

\* dbRun('INSERT INTO equipment (name, type, status, lastCleanedDate) ...'):
\* the primary key rejects a rowid that is already in the table
dbRunInsert(rows, sq, data) ==
    LET newId == NextRowId(rows, sq)
    IN  IF \E r \in rows : r.id = newId
        THEN [error |-> TRUE, rows |-> rows, seq |-> sq, lastID |-> 0]
        ELSE [error |-> FALSE,
              rows |-> rows \cup {[id |-> newId,
                                   name |-> data.name,
                                   type |-> data.type,
                                   status |-> data.status,
                                   lastCleanedDate |-> data.lastCleanedDate]},
              seq |-> newId,
              lastID |-> newId]

\* variant: the UPDATE statement without its WHERE clause
dbRunUpdate_NoWhere(rows, data, id) ==
    {[id |-> r.id,
      name |-> data.name,
      type |-> data.type,
      status |-> data.status,
      lastCleanedDate |-> data.lastCleanedDate] : r \in rows}

\* dbRun('UPDATE equipment SET name = ?, type = ?, status = ?,
\*        lastCleanedDate = ? WHERE id = ?')
dbRunUpdate(rows, data, id) ==
    {IF r.id = id
     THEN [id |-> r.id,
           name |-> data.name,
           type |-> data.type,
           status |-> data.status,
           lastCleanedDate |-> data.lastCleanedDate]
     ELSE r : r \in rows}

\* variant: the DELETE statement without its WHERE clause
dbRunDelete_NoWhere(rows, id) ==
    [rows |-> {},
     changes |-> Cardinality(rows)]

\* dbRun('DELETE FROM equipment WHERE id = ?')
dbRunDelete(rows, id) ==
    [rows |-> {r \in rows : r.id # id},
     changes |-> Cardinality({r \in rows : r.id = id})]

(***************************************************************************)
(* Requests and responses                                                  *)
(***************************************************************************)
NoBody ==
    [isRecord |-> FALSE, name |-> Undefined, type |-> Undefined,
     status |-> Undefined, lastCleanedDate |-> Undefined, id |-> Undefined]

NoReq == [op |-> "none", id |-> <<>>, body |-> NoBody]

NoRes == [status |-> 0, kind |-> "none", rows |-> <<>>, message |-> ""]

\* res.status(code).json({ message })
JsonMessage(code, msg) ==
    [status |-> code, kind |-> "message", rows |-> <<>>, message |-> msg]

\* res.status(code).json(row)
JsonRow(code, row) ==
    [status |-> code, kind |-> "row", rows |-> <<row>>, message |-> ""]

\* res.status(code).json(rows)
JsonRows(code, rows) ==
    [status |-> code, kind |-> "rows", rows |-> rows, message |-> ""]

\* res.status(204).send()
SendEmpty(code) ==
    [status |-> code, kind |-> "empty", rows |-> <<>>, message |-> ""]

(***************************************************************************)
(* Inputs                                                                  *)
(***************************************************************************)
S_Tk == <<"T", "k">>
S_2024_01_15 == <<"2", "0", "2", "4", "-", "0", "1", "-", "1", "5">>
S_2024_02_30 == <<"2", "0", "2", "4", "-", "0", "2", "-", "3", "0">>

NameInputs ==
    {Str(S_Tk), Str(<<" ">> \o S_Tk \o <<" ">>), Str(<<" ", "a", " ">>), Undefined}

TypeInputs == {Str(S_Tank), Str(<<"t", "a", "n", "k">>), NumberValue}

StatusInputs == {Str(S_Active), Str(<<"B", "r", "o", "k", "e", "n">>)}

DateInputs ==
    {Str(S_2024_01_15), Str(S_2024_02_30),
     Str(<<" ">> \o S_2024_01_15 \o <<"\n">>),
     Str(<<"2", "0", "2", "4", "-", "1", "-", "1", "5">>),
     Str(<<" ", " ">>),
     Undefined}

BodyIdInputs == {Undefined, NumberValue}

Bodies ==
    {NoBody} \cup
    [isRecord : {TRUE}, name : NameInputs, type : TypeInputs,
     status : StatusInputs, lastCleanedDate : DateInputs, id : BodyIdInputs]

DigitChar(n) ==
    CASE n = 0 -> "0" [] n = 1 -> "1" [] n = 2 -> "2" [] n = 3 -> "3"
      [] n = 4 -> "4" [] n = 5 -> "5" [] n = 6 -> "6" [] n = 7 -> "7"
      [] n = 8 -> "8" [] n = 9 -> "9"

\* the :id path parameter, as the string express hands to the handler
IdParams ==
    {<<DigitChar(n)>> : n \in 1..MaxId} \cup
    {<<"0">>, <<"1", ".", "5">>, <<"x">>}

(***************************************************************************)
(* Initial values                                                          *)
(***************************************************************************)
S_All == <<"A", "l", "l">>

\* the table is empty and no request is being answered
BackendInitial ==
    /\ store = {}
    /\ seq = 0
    /\ req = NoReq
    /\ res = NoRes
    /\ issued = {}

\* the useState initial values of the list controls of App
DisplayInitial ==
    /\ equipment = <<>>
    /\ searchQuery = <<>>
    /\ statusFilter = S_All
    /\ sortOption = "nameAsc"
    /\ displayedEquipment = <<>>

createEmptyData ==
    [name |-> <<>>, type |-> S_Machine, status |-> S_Active, lastCleanedDate |-> <<>>]

\* no submit event is being handled
NoCall == [handled |-> FALSE, args |-> <<>>]

\* the form as it is mounted to add a record
FormInitial ==
    /\ initialData = <<>>
    /\ formData = createEmptyData
    /\ submitAttempted = FALSE
    /\ onSubmitCall = NoCall
    /\ today = S_2024_01_15

\* a JSON value: an object with its members in order, an array with its
\* items in order, or null
JsonObject(fields) == [t |-> "object", fields |-> fields]

JsonArray(items) == [t |-> "array", fields |-> items]

\* a Response: json is <<data>> when the body parses as JSON, <<>> when not
Response(status, statusText, contentType, json, text) ==
    [status |-> status, statusText |-> statusText, contentType |-> contentType,
     json |-> json, text |-> text]

S_ApplicationJson == <<"a", "p", "p", "l", "i", "c", "a", "t", "i", "o", "n", "/", "j", "s", "o", "n">>

S_ApplicationJsonUtf8 == S_ApplicationJson \o <<";", " ", "c", "h", "a", "r", "s", "e", "t", "=", "u", "t", "f", "-", "8">>

\* a value that was thrown
JsError(name, message) == [name |-> name, message |-> message]

\* fetch resolved with response
Resolved(via, response) ==
    [via |-> via, rejected |-> FALSE, reason |-> JsError("", <<>>), response |-> response]

\* fetch rejected with reason
Rejected(via, reason) ==
    [via |-> via, rejected |-> TRUE, reason |-> reason,
     response |-> Response(0, <<>>, <<>>, <<>>, <<>>)]

BannerInitial ==
    /\ fetchOutcome =
          Resolved("requestJson",
                   Response(200, <<"O", "K">>, S_ApplicationJsonUtf8, <<JsonArray(<<>>)>>, <<"[", "]">>))
    /\ error = <<>>

\* a call of a handler that has returned
DoneTask == [kind |-> "none", pc |-> "done", method |-> "", id |-> 0,
             payload |-> <<>>, response |-> <<>>]

\* task 0 is the load of the mount effect
TaskIds == 0..MaxActions

ClientInitial ==
    /\ loading = FALSE
    /\ editingEquipment = <<>>
    /\ isFormVisible = FALSE
    /\ tasks = [t \in TaskIds |->
                  [kind |-> "none", pc |-> "unused", method |-> "", id |-> 0,
                   payload |-> <<>>, response |-> <<>>]]

ProcIds == 1..MaxProcs

\* no request in progress
NoProc == [op |-> "none", pc |-> "idle", id |-> 0, data |-> NoData, lastID |-> 0,
           res |-> NoRes]

RaceInitial == procs = [p \in ProcIds |-> NoProc]

(***************************************************************************)
(* Handlers (controllers/equipment.controller.ts)                          *)
(***************************************************************************)
Init ==
    /\ BackendInitial
    /\ DisplayInitial
    /\ FormInitial
    /\ BannerInitial
    /\ ClientInitial
    /\ RaceInitial

getAllEquipment ==
    /\ req = NoReq
    /\ UNCHANGED notBackend
    /\ req' = [op |-> "GET", id |-> <<>>, body |-> NoBody]
    /\ res' = JsonRows(200, dbAll(store))
    /\ UNCHANGED <<store, seq, issued>>

createEquipment(body) ==
    LET parsed == validatePayload(body)
        result == dbRunInsert(store, seq, parsed.data)
        created == dbGet(result.rows, result.lastID)
    IN  /\ req = NoReq
        /\ UNCHANGED notBackend
        /\ parsed.ok => seq < MaxId
        /\ req' = [op |-> "POST", id |-> <<>>, body |-> body]
        /\ IF ~parsed.ok
           THEN /\ res' = JsonMessage(400, parsed.message)
                /\ UNCHANGED <<store, seq, issued>>
           ELSE IF result.error
           THEN /\ res' = JsonMessage(500, "Internal server error.")
                /\ UNCHANGED <<store, seq, issued>>
           ELSE /\ store' = result.rows
                /\ seq' = result.seq
                /\ IF created = <<>>
                   THEN /\ res' = JsonMessage(500, "Failed to create equipment.")
                        /\ issued' = issued
                   ELSE /\ res' = JsonRow(201, created[1])
                        /\ issued' = issued \cup {created[1].id}

\* variant: the row is looked up before the payload is validated
updateEquipment_ExistenceFirst(idParam, body) ==
    LET id == parseId(idParam)
        parsed == validatePayload(body)
        existing == dbGet(store, id)
        written == dbRunUpdate(store, parsed.data, id)
        updated == dbGet(written, id)
    IN  /\ req = NoReq
        /\ UNCHANGED notBackend
        /\ req' = [op |-> "PUT", id |-> idParam, body |-> body]
        /\ UNCHANGED <<seq, issued>>
        /\ IF id = NoId
           THEN /\ res' = JsonMessage(400, "Invalid equipment id.")
                /\ store' = store
           ELSE IF existing = <<>>
           THEN /\ res' = JsonMessage(404, "Equipment not found.")
                /\ store' = store
           ELSE IF ~parsed.ok
           THEN /\ res' = JsonMessage(400, parsed.message)
                /\ store' = store
           ELSE /\ store' = written
                /\ res' = IF updated = <<>>
                          THEN JsonMessage(500, "Failed to update equipment.")
                          ELSE JsonRow(200, updated[1])

updateEquipment(idParam, body) ==
    LET id == parseId(idParam)
        parsed == validatePayload(body)
        existing == dbGet(store, id)
        written == dbRunUpdate(store, parsed.data, id)
        updated == dbGet(written, id)
    IN  /\ req = NoReq
        /\ UNCHANGED notBackend
        /\ req' = [op |-> "PUT", id |-> idParam, body |-> body]
        /\ UNCHANGED <<seq, issued>>
        /\ IF id = NoId
           THEN /\ res' = JsonMessage(400, "Invalid equipment id.")
                /\ store' = store
           ELSE IF ~parsed.ok
           THEN /\ res' = JsonMessage(400, parsed.message)
                /\ store' = store
           ELSE IF existing = <<>>
           THEN /\ res' = JsonMessage(404, "Equipment not found.")
                /\ store' = store
           ELSE /\ store' = written
                /\ res' = IF updated = <<>>
                          THEN JsonMessage(500, "Failed to update equipment.")
                          ELSE JsonRow(200, updated[1])

\* variant: result.changes is not looked at
deleteEquipment_IgnoresChanges(idParam) ==
    LET id == parseId(idParam)
        result == dbRunDelete(store, id)
    IN  /\ req = NoReq
        /\ UNCHANGED notBackend
        /\ req' = [op |-> "DELETE", id |-> idParam, body |-> NoBody]
        /\ UNCHANGED <<seq, issued>>
        /\ IF id = NoId
           THEN /\ res' = JsonMessage(400, "Invalid equipment id.")
                /\ store' = store
           ELSE /\ store' = result.rows
                /\ res' = SendEmpty(204)

deleteEquipment(idParam) ==
    LET id == parseId(idParam)
        result == dbRunDelete(store, id)
    IN  /\ req = NoReq
        /\ UNCHANGED notBackend
        /\ req' = [op |-> "DELETE", id |-> idParam, body |-> NoBody]
        /\ UNCHANGED <<seq, issued>>
        /\ IF id = NoId
           THEN /\ res' = JsonMessage(400, "Invalid equipment id.")
                /\ store' = store
           ELSE /\ store' = result.rows
                /\ res' = IF result.changes = 0
                          THEN JsonMessage(404, "Equipment not found.")
                          ELSE SendEmpty(204)

\* the response is written out and the request is over
EndRequest ==
    /\ req # NoReq
    /\ UNCHANGED notBackend
    /\ req' = NoReq
    /\ res' = NoRes
    /\ UNCHANGED <<store, seq, issued>>

Next ==
    \/ getAllEquipment
    \/ \E body \in Bodies : createEquipment(body)
    \/ \E idParam \in IdParams, body \in Bodies : updateEquipment(idParam, body)
    \/ \E idParam \in IdParams : deleteEquipment(idParam)
    \/ EndRequest

Spec == Init /\ [][Next]_vars

TypeOK ==
    /\ seq \in 0..MaxId
    /\ issued \subseteq 1..MaxId
    /\ \A r \in store : r.id \in 1..MaxId
    /\ req.op \in {"none", "GET", "POST", "PUT", "DELETE"}
    /\ res.status \in {0, 200, 201, 204, 400, 404, 500}

(***************************************************************************)
(* App.tsx: the filter and sort pipeline (displayedEquipment)              *)
(***************************************************************************)
UpperCaseLetters ==
    <<"A", "B", "C", "D", "E", "F", "G", "H", "I", "J", "K", "L", "M", "N",
      "O", "P", "Q", "R", "S", "T", "U", "V", "W", "X", "Y", "Z">>

LowerCaseLetters ==
    <<"a", "b", "c", "d", "e", "f", "g", "h", "i", "j", "k", "l", "m", "n",
      "o", "p", "q", "r", "s", "t", "u", "v", "w", "x", "y", "z">>

\* the place of c in letters, 0 when it is not among them
IndexIn(c, letters) ==
    IF \E i \in 1..Len(letters) : letters[i] = c
    THEN CHOOSE i \in 1..Len(letters) : letters[i] = c
    ELSE 0

\* String.prototype.toLowerCase
toLowerCase(s) ==
    [i \in 1..Len(s) |->
        IF IndexIn(s[i], UpperCaseLetters) # 0
        THEN LowerCaseLetters[IndexIn(s[i], UpperCaseLetters)]
        ELSE s[i]]

\* String.prototype.includes
includes(s, sub) ==
    \E k \in 0..(Len(s) - Len(sub)) : SubSeq(s, k + 1, k + Len(sub)) = sub

\* the primary weight of a character in the collation of localeCompare:
\* white space, then punctuation, then digits, then letters, a letter
\* having the same weight in both cases
CollationWeight(c) ==
    IF c = " " THEN 1
    ELSE IF c = "-" THEN 2
    ELSE IF IsDigit(c) THEN 3 + DigitValue(c)
    ELSE IF IndexIn(c, LowerCaseLetters) # 0 THEN 13 + IndexIn(c, LowerCaseLetters)
    ELSE IF IndexIn(c, UpperCaseLetters) # 0 THEN 13 + IndexIn(c, UpperCaseLetters)
    ELSE 0

\* the code unit order of the characters of the model (ASCII)
CodeUnit(c) ==
    IF c = " " THEN 32
    ELSE IF c = "-" THEN 45
    ELSE IF IsDigit(c) THEN 48 + DigitValue(c)
    ELSE IF IndexIn(c, UpperCaseLetters) # 0 THEN 64 + IndexIn(c, UpperCaseLetters)
    ELSE IF IndexIn(c, LowerCaseLetters) # 0 THEN 96 + IndexIn(c, LowerCaseLetters)
    ELSE 0

\* variant: comparison by code units, upper case before lower case
RECURSIVE localeCompareBase_CodeUnits(_, _)
localeCompareBase_CodeUnits(a, b) ==
    IF a = <<>> /\ b = <<>> THEN 0
    ELSE IF a = <<>> THEN -1
    ELSE IF b = <<>> THEN 1
    ELSE IF CodeUnit(Head(a)) < CodeUnit(Head(b)) THEN -1
    ELSE IF CodeUnit(Head(a)) > CodeUnit(Head(b)) THEN 1
    ELSE localeCompareBase_CodeUnits(Tail(a), Tail(b))

\* a.localeCompare(b, undefined, { sensitivity: 'base' })
RECURSIVE localeCompareBase(_, _)
localeCompareBase(a, b) ==
    IF a = <<>> /\ b = <<>> THEN 0
    ELSE IF a = <<>> THEN -1
    ELSE IF b = <<>> THEN 1
    ELSE IF CollationWeight(Head(a)) < CollationWeight(Head(b)) THEN -1
    ELSE IF CollationWeight(Head(a)) > CollationWeight(Head(b)) THEN 1
    ELSE localeCompareBase(Tail(a), Tail(b))

\* the case level of the collation: at the first difference the lower
\* case letter comes first
RECURSIVE CaseLevel(_, _)
CaseLevel(a, b) ==
    IF a = <<>> \/ b = <<>> THEN 0
    ELSE IF Head(a) = Head(b) THEN CaseLevel(Tail(a), Tail(b))
    ELSE IF IndexIn(Head(a), LowerCaseLetters) # 0 THEN -1
    ELSE 1

\* a.localeCompare(b)
localeCompare(a, b) ==
    IF localeCompareBase(a, b) # 0 THEN localeCompareBase(a, b) ELSE CaseLevel(a, b)

\* the comparator handed to sort
CompareItems(a, b, option) ==
    CASE option = "nameAsc" -> localeCompareBase(a.name, b.name)
      [] option = "nameDesc" -> localeCompareBase(b.name, a.name)
      [] option = "dateNewest" -> localeCompare(b.lastCleanedDate, a.lastCleanedDate)
      [] option = "dateOldest" -> localeCompare(a.lastCleanedDate, b.lastCleanedDate)
      [] OTHER -> 0

\* x goes before the first item that compares greater than x
RECURSIVE InsertSorted(_, _, _)
InsertSorted(x, sorted, option) ==
    IF sorted = <<>> THEN <<x>>
    ELSE IF CompareItems(Head(sorted), x, option) > 0 THEN <<x>> \o sorted
    ELSE <<Head(sorted)>> \o InsertSorted(x, Tail(sorted), option)

\* Array.prototype.sort with the comparator: a stable sort of a copy
RECURSIVE SortItems(_, _)
SortItems(items, option) ==
    IF items = <<>> THEN <<>>
    ELSE InsertSorted(items[Len(items)],
                      SortItems(SubSeq(items, 1, Len(items) - 1), option),
                      option)

\* variant: the name of the item is not folded to lower case
DisplayedEquipment_CaseSensitive(items, query, filter, option) ==
    LET normalizedQuery == toLowerCase(Trim(query))
        Matches(item) ==
            /\ Len(normalizedQuery) = 0 \/ includes(item.name, normalizedQuery)
            /\ filter = S_All \/ item.status = filter
    IN  SortItems(SelectSeq(items, Matches), option)

\* the useMemo that computes displayedEquipment
DisplayedEquipment(items, query, filter, option) ==
    LET normalizedQuery == toLowerCase(Trim(query))
        Matches(item) ==
            /\ Len(normalizedQuery) = 0 \/ includes(toLowerCase(item.name), normalizedQuery)
            /\ filter = S_All \/ item.status = filter
    IN  SortItems(SelectSeq(items, Matches), option)

\* the largest number of fetched records
MaxRecords == 3

S_2023_12_31 == <<"2", "0", "2", "3", "-", "1", "2", "-", "3", "1">>

\* the fetched lists: ids ascending from 1, as getAllEquipment orders them;
\* RecordInputs are the name, status and lastCleanedDate the records are
\* drawn from
EquipmentLists ==
    LET RecordInputs ==
            {<<<<"A">>, S_Active, S_2024_01_15>>,
             <<<<"b">>, S_Inactive, S_2023_12_31>>,
             <<<<"C">>, S_Active, S_2024_02_30>>,
             <<<<"a">>, S_UnderMaintenance, S_2023_12_31>>,
             <<<<"A", "b">>, S_Inactive, S_2024_01_15>>}
    IN  UNION {{[i \in 1..n |-> [id |-> i, name |-> f[i][1], type |-> S_Tank,
                                 status |-> f[i][2], lastCleanedDate |-> f[i][3]]] :
                f \in [1..n -> RecordInputs]} : n \in 0..MaxRecords}

\* a list has been fetched and the controls are untouched
DisplayInit ==
    /\ BackendInitial
    /\ FormInitial
    /\ BannerInitial
    /\ ClientInitial
    /\ RaceInitial
    /\ equipment \in EquipmentLists
    /\ searchQuery = <<>>
    /\ statusFilter = S_All
    /\ sortOption = "nameAsc"
    /\ displayedEquipment = DisplayedEquipment(equipment, searchQuery, statusFilter, sortOption)

setSearchQuery(query) ==
    /\ searchQuery' = query
    /\ displayedEquipment' = DisplayedEquipment(equipment, query, statusFilter, sortOption)
    /\ UNCHANGED <<equipment, statusFilter, sortOption>>
    /\ UNCHANGED <<backendVars, formVars, bannerVars, clientVars, raceVars>>

setStatusFilter(filter) ==
    /\ statusFilter' = filter
    /\ displayedEquipment' = DisplayedEquipment(equipment, searchQuery, filter, sortOption)
    /\ UNCHANGED <<equipment, searchQuery, sortOption>>
    /\ UNCHANGED <<backendVars, formVars, bannerVars, clientVars, raceVars>>

setSortOption(option) ==
    /\ sortOption' = option
    /\ displayedEquipment' = DisplayedEquipment(equipment, searchQuery, statusFilter, option)
    /\ UNCHANGED <<equipment, searchQuery, statusFilter>>
    /\ UNCHANGED <<backendVars, formVars, bannerVars, clientVars, raceVars>>

DisplayNext ==
    \/ \E query \in {<<>>, <<"a">>, <<"B">>, <<" ", "b", " ">>, <<" ", " ">>, <<"A", "B">>} : setSearchQuery(query)
    \/ \E filter \in ({S_All} \cup STATUS_OPTIONS) : setStatusFilter(filter)
    \/ \E option \in {"nameAsc", "nameDesc", "dateNewest", "dateOldest"} : setSortOption(option)

SpecDisplay == DisplayInit /\ [][DisplayNext]_vars

(***************************************************************************)
(* components/EquipmentForm.tsx                                            *)
(***************************************************************************)
toFormData(data) ==
    IF data = <<>> THEN createEmptyData
    ELSE [name |-> data[1].name,
          type |-> data[1].type,
          status |-> data[1].status,
          lastCleanedDate |-> data[1].lastCleanedDate]

\* variant: the name is only asked not to be empty
validate_NoNameLength(data) ==
    [name |-> IF Len(Trim(data.name)) = 0 THEN "Name is required." ELSE "",
     type |-> IF data.type \notin TYPE_OPTIONS THEN "Type is required." ELSE "",
     status |-> IF data.status \notin STATUS_OPTIONS THEN "Status is required." ELSE "",
     lastCleanedDate |-> IF Len(Trim(data.lastCleanedDate)) = 0
                         THEN "Last cleaned date is required."
                         ELSE ""]

\* validate: the message of each field, "" for a field without error
validate(data) ==
    [name |-> IF Len(Trim(data.name)) = 0 THEN "Name is required."
              ELSE IF Len(Trim(data.name)) < 2 THEN "Name must be at least 2 characters."
              ELSE "",
     type |-> IF data.type \notin TYPE_OPTIONS THEN "Type is required." ELSE "",
     status |-> IF data.status \notin STATUS_OPTIONS THEN "Status is required." ELSE "",
     lastCleanedDate |-> IF Len(Trim(data.lastCleanedDate)) = 0
                         THEN "Last cleaned date is required."
                         ELSE ""]

\* Object.keys(errors).length
ErrorCount(errors) == Cardinality({f \in DOMAIN errors : errors[f] # ""})

S_2024_06_30 == <<"2", "0", "2", "4", "-", "0", "6", "-", "3", "0">>

\* the records the form is opened on: none (add), rows as the backend
\* stores them, and rows of an equipment.db written by other hands, which
\* the table constrains to NOT NULL text only
FormInit ==
    LET InitialDataInputs ==
            {<<>>,
             <<[id |-> 1, name |-> S_Tk, type |-> S_Tank, status |-> S_Active,
                lastCleanedDate |-> S_2024_01_15]>>,
             <<[id |-> 2, name |-> S_Tk, type |-> S_Mixer, status |-> S_Inactive,
                lastCleanedDate |-> S_2024_02_30]>>,
             <<[id |-> 3, name |-> S_Tk, type |-> <<"t", "a", "n", "k">>, status |-> S_Active,
                lastCleanedDate |-> S_2024_01_15]>>,
             <<[id |-> 4, name |-> S_Tk, type |-> S_Tank, status |-> <<"B", "r", "o", "k", "e", "n">>,
                lastCleanedDate |-> S_2024_01_15]>>}
    IN  /\ BackendInitial
        /\ DisplayInitial
        /\ BannerInitial
        /\ ClientInitial
        /\ RaceInitial
        /\ initialData \in InitialDataInputs
        /\ formData = toFormData(initialData)
        /\ submitAttempted = FALSE
        /\ onSubmitCall = NoCall
        /\ today \in {S_2024_01_15, S_2024_06_30}

\* onChange of the four controls
changeName(value) ==
    /\ ~onSubmitCall.handled
    /\ formData' = [formData EXCEPT !.name = value]
    /\ UNCHANGED <<initialData, submitAttempted, onSubmitCall, today>>
    /\ UNCHANGED notForm

changeType(value) ==
    /\ ~onSubmitCall.handled
    /\ formData' = [formData EXCEPT !.type = value]
    /\ UNCHANGED <<initialData, submitAttempted, onSubmitCall, today>>
    /\ UNCHANGED notForm

changeStatus(value) ==
    /\ ~onSubmitCall.handled
    /\ formData' = [formData EXCEPT !.status = value]
    /\ UNCHANGED <<initialData, submitAttempted, onSubmitCall, today>>
    /\ UNCHANGED notForm

changeLastCleanedDate(value) ==
    /\ ~onSubmitCall.handled
    /\ formData' = [formData EXCEPT !.lastCleanedDate = value]
    /\ UNCHANGED <<initialData, submitAttempted, onSubmitCall, today>>
    /\ UNCHANGED notForm

\* handleSubmit of the form; the handler is taken as it is written, also
\* for data on which the submit button is disabled
FormHandleSubmit ==
    /\ ~onSubmitCall.handled
    /\ submitAttempted' = TRUE
    /\ onSubmitCall' =
          IF ErrorCount(validate(formData)) > 0
          THEN [handled |-> TRUE, args |-> <<>>]
          ELSE [handled |-> TRUE,
                args |-> <<[name |-> Trim(formData.name),
                            type |-> formData.type,
                            status |-> formData.status,
                            lastCleanedDate |-> formData.lastCleanedDate]>>]
    /\ UNCHANGED <<initialData, formData, today>>
    /\ UNCHANGED notForm

\* handleCancel of the form
FormHandleCancel ==
    /\ ~onSubmitCall.handled
    /\ formData' = toFormData(initialData)
    /\ submitAttempted' = FALSE
    /\ UNCHANGED <<initialData, onSubmitCall, today>>
    /\ UNCHANGED notForm

\* the submit event is over
FormEventDone ==
    /\ onSubmitCall.handled
    /\ onSubmitCall' = NoCall
    /\ UNCHANGED <<initialData, formData, submitAttempted, today>>
    /\ UNCHANGED notForm

FormNext ==
    \/ \E value \in {<<>>, <<"T">>, S_Tk, <<" ">> \o S_Tk \o <<" ">>, <<" ", "a", " ">>} : changeName(value)
    \/ \E value \in TYPE_OPTIONS : changeType(value)
    \/ \E value \in STATUS_OPTIONS : changeStatus(value)
    \/ \E value \in {<<>>, S_2023_12_31, S_2024_01_15, S_2024_06_30} : changeLastCleanedDate(value)
    \/ FormHandleSubmit
    \/ FormHandleCancel
    \/ FormEventDone

SpecForm == FormInit /\ [][FormNext]_vars

(***************************************************************************)
(* services/api.ts and getErrorMessage of App.tsx                          *)
(***************************************************************************)
\* String(n) of a natural number
RECURSIVE NumberToString(_)
NumberToString(n) ==
    IF n < 10 THEN <<DigitChar(n)>>
    ELSE NumberToString(n \div 10) \o <<DigitChar(n % 10)>>

RECURSIVE QuoteChars(_)
QuoteChars(s) ==
    IF s = <<>> THEN <<>>
    ELSE (IF Head(s) \in {"\"", "\\"} THEN <<"\\", Head(s)>> ELSE <<Head(s)>>)
         \o QuoteChars(Tail(s))

\* JSON.stringify of a string
StringifyString(s) == <<"\"">> \o QuoteChars(s) \o <<"\"">>

RECURSIVE StringifyFields(_)
StringifyFields(fields) ==
    IF fields = <<>> THEN <<>>
    ELSE StringifyString(fields[1].key) \o <<":">> \o (IF fields[1].value.t = "string"
               THEN StringifyString(fields[1].value.s)
               ELSE fields[1].value.s)
         \o (IF Len(fields) > 1 THEN <<",">> ELSE <<>>)
         \o StringifyFields(Tail(fields))

RECURSIVE JsonStringify(_)

RECURSIVE StringifyItems(_)
StringifyItems(items) ==
    IF items = <<>> THEN <<>>
    ELSE JsonStringify(items[1])
         \o (IF Len(items) > 1 THEN <<",">> ELSE <<>>)
         \o StringifyItems(Tail(items))

\* JSON.stringify
JsonStringify(data) ==
    IF data.t = "null" THEN <<"n", "u", "l", "l">>
    ELSE IF data.t = "array" THEN <<"[">> \o StringifyItems(data.fields) \o <<"]">>
    ELSE <<"{">> \o StringifyFields(data.fields) \o <<"}">>

\* the member of an object with the given key
Get(data, key) ==
    data.fields[CHOOSE i \in 1..Len(data.fields) : data.fields[i].key = key].value

S_RequestFailed == <<"R", "e", "q", "u", "e", "s", "t", " ", "f", "a", "i", "l", "e", "d">>

\* a || b for strings
OrElse(a, b) == IF a # <<>> THEN a ELSE b

\* variant: the body is always shown as JSON text
readErrorMessage_AlwaysStringify(response) ==
    IF includes(response.contentType, S_ApplicationJson)
    THEN IF response.json = <<>>
         THEN OrElse(response.statusText, S_RequestFailed)
         ELSE JsonStringify(response.json[1])
    ELSE OrElse(Trim(response.text), OrElse(response.statusText, S_RequestFailed))

readErrorMessage(response) ==
    IF includes(response.contentType, S_ApplicationJson)
    THEN IF response.json = <<>>
         THEN OrElse(response.statusText, S_RequestFailed)
         ELSE IF /\ response.json[1].t = "object"
                 /\ \E i \in 1..Len(response.json[1].fields) :
                       response.json[1].fields[i].key = <<"m", "e", "s", "s", "a", "g", "e">>
                 /\ Get(response.json[1], <<"m", "e", "s", "s", "a", "g", "e">>).t = "string"
              THEN Get(response.json[1], <<"m", "e", "s", "s", "a", "g", "e">>).s
              ELSE JsonStringify(response.json[1])
    ELSE OrElse(Trim(response.text), OrElse(response.statusText, S_RequestFailed))

NotThrown == [threw |-> FALSE, value |-> JsError("", <<>>)]

Thrown(value) == [threw |-> TRUE, value |-> value]

\* new Error(`Request failed (${response.status}): ${message}`)
RequestFailedError(response) ==
    JsError("Error",
            S_RequestFailed \o <<" ", "(">> \o NumberToString(response.status)
                \o <<")", ":", " ">> \o readErrorMessage(response))

\* requestJson: what it throws, if it throws
requestJson(outcome) ==
    IF outcome.rejected THEN Thrown(outcome.reason)
    ELSE IF outcome.response.status \notin 200..299 THEN Thrown(RequestFailedError(outcome.response))
    ELSE IF ~includes(outcome.response.contentType, S_ApplicationJson)
         THEN Thrown(JsError("Error", <<"I", "n", "v", "a", "l", "i", "d", " ", "s", "e", "r", "v", "e", "r", " ", "r", "e", "s", "p", "o", "n", "s", "e", " ", "(", "e", "x", "p", "e", "c", "t", "e", "d", " ", "J", "S", "O", "N", ")", ".">>))
    ELSE IF outcome.response.json = <<>>
         THEN Thrown(JsError("SyntaxError", <<"U", "n", "e", "x", "p", "e", "c", "t", "e", "d", " ", "t", "o", "k", "e", "n">>))
    ELSE NotThrown

\* requestVoid: what it throws, if it throws
requestVoid(outcome) ==
    IF outcome.rejected THEN Thrown(outcome.reason)
    ELSE IF outcome.response.status \notin 200..299 THEN Thrown(RequestFailedError(outcome.response))
    ELSE NotThrown

\* the request function the outcome belongs to
Request(outcome) ==
    IF outcome.via = "requestVoid" THEN requestVoid(outcome) ELSE requestJson(outcome)

S_UnableToReach ==
    <<"U", "n", "a", "b", "l", "e", " ", "t", "o", " ", "r", "e", "a", "c", "h", " ", "t", "h", "e", " ", "s", "e", "r", "v", "e", "r", ".", " ", "P", "l", "e", "a", "s", "e", " ", "c", "o", "n", "f", "i", "r", "m", " ", "t", "h", "e", " ", "b", "a", "c", "k", "e", "n", "d", " ", "i", "s", " ", "r", "u", "n", "n", "i", "n", "g", " ", "a", "t", " ", "h", "t", "t", "p", ":", "/", "/", "l", "o", "c", "a", "l", "h", "o", "s", "t", ":", "5", "0", "0", "0", ".">>

\* getErrorMessage, for the Error instances the request functions throw
getErrorMessage(e) ==
    IF e.name = "TypeError" /\ includes(toLowerCase(e.message), <<"f", "e", "t", "c", "h">>)
    THEN S_UnableToReach
    ELSE e.message

S_EquipmentNotFound == <<"E", "q", "u", "i", "p", "m", "e", "n", "t", " ", "n", "o", "t", " ", "f", "o", "u", "n", "d", ".">>

S_NotFound == <<"N", "o", "t", " ", "F", "o", "u", "n", "d">>

Member(key, value) == [key |-> key, value |-> value]

FetchOutcomes ==
    LET \* the TypeError messages of a fetch that did not reach the server, by browser
        NetworkFailureMessages ==
            {<<"F", "a", "i", "l", "e", "d", " ", "t", "o", " ", "f", "e", "t", "c", "h">>,
             <<"N", "e", "t", "w", "o", "r", "k", "E", "r", "r", "o", "r", " ", "w", "h", "e", "n", " ", "a", "t", "t", "e", "m", "p", "t", "i", "n", "g", " ", "t", "o", " ", "f", "e", "t", "c", "h", " ", "r", "e", "s", "o", "u", "r", "c", "e", ".">>,
             <<"L", "o", "a", "d", " ", "f", "a", "i", "l", "e", "d">>}
        \* the JSON bodies a response may carry
        JsonDataInputs ==
            {JsonObject(<<Member(<<"m", "e", "s", "s", "a", "g", "e">>, Str(S_EquipmentNotFound))>>),
             JsonObject(<<Member(<<"m", "e", "s", "s", "a", "g", "e">>, Str(<<"I", "n", "v", "a", "l", "i", "d", " ", "i", "d", ".">>))>>),
             JsonObject(<<Member(<<"m", "e", "s", "s", "a", "g", "e">>, Str(<<>>))>>),
             JsonObject(<<Member(<<"m", "e", "s", "s", "a", "g", "e">>,
                                 [t |-> "number", s |-> <<"4", "0", "4">>])>>),
             JsonObject(<<Member(<<"e", "r", "r", "o", "r">>, Str(S_NotFound)),
                          Member(<<"c", "o", "d", "e">>, [t |-> "number", s |-> <<"7">>])>>),
             JsonArray(<<[t |-> "null", fields |-> <<>>]>>),
             [t |-> "null", fields |-> <<>>]}
        \* the bodies that are not JSON
        TextInputs == {<<>>, <<" ">> \o S_NotFound \o <<"\n">>, <<"<", "h", "1", ">">>}
        BodyInputs ==
            {[json |-> <<data>>, text |-> JsonStringify(data)] : data \in JsonDataInputs}
              \cup {[json |-> <<>>, text |-> text] : text \in TextInputs}
        StatusCodeInputs == {200, 400, 404, 500}
        ResponseInputs ==
            {Response(status, statusText, contentType, body.json, body.text) :
                status \in StatusCodeInputs,
                statusText \in {<<>>, S_NotFound},
                contentType \in {S_ApplicationJsonUtf8, <<"t", "e", "x", "t", "/", "h", "t", "m", "l">>, <<>>},
                body \in BodyInputs}
    IN  {Resolved(via, response) :
            via \in {"requestJson", "requestVoid"}, response \in ResponseInputs}
          \cup {Rejected(via, JsError("TypeError", message)) :
                  via \in {"requestJson", "requestVoid"}, message \in NetworkFailureMessages}

BannerInit ==
    /\ BackendInitial
    /\ DisplayInitial
    /\ FormInitial
    /\ ClientInitial
    /\ RaceInitial
    /\ fetchOutcome \in FetchOutcomes
    /\ error = <<>>

\* catch (caughtError) { setError(getErrorMessage(caughtError)) }
catchError ==
    /\ error = <<>>
    /\ Request(fetchOutcome).threw
    /\ error' = <<getErrorMessage(Request(fetchOutcome).value)>>
    /\ UNCHANGED fetchOutcome
    /\ UNCHANGED <<backendVars, displayVars, formVars, clientVars, raceVars>>

\* onClose of the Alert
onCloseAlert ==
    /\ error # <<>>
    /\ error' = <<>>
    /\ UNCHANGED fetchOutcome
    /\ UNCHANGED <<backendVars, displayVars, formVars, clientVars, raceVars>>

BannerNext == catchError \/ onCloseAlert

SpecBanner == BannerInit /\ [][BannerNext]_vars

(***************************************************************************)
(* The asynchronous handlers of App.tsx, with the backend behind them      *)
(***************************************************************************)
\* (await response.json()) as Equipment[]
JsonToEquipmentList(data) ==
    LET \* (await response.json()) as Equipment
        JsonToEquipment(item) ==
            [id |-> DecimalValue(Get(item, <<"i", "d">>).s),
             name |-> Get(item, <<"n", "a", "m", "e">>).s,
             type |-> Get(item, <<"t", "y", "p", "e">>).s,
             status |-> Get(item, <<"s", "t", "a", "t", "u", "s">>).s,
             lastCleanedDate |-> Get(item, <<"l", "a", "s", "t", "C", "l", "e", "a", "n", "e", "d", "D", "a", "t", "e">>).s]
    IN  [i \in 1..Len(data.fields) |-> JsonToEquipment(data.fields[i])]

\* the Response that fetch makes of what the handler wrote
ToResponse(r) ==
    LET \* the characters of a message of the controller
        Chars(msg) ==
            CASE   msg = "Equipment not found." ->
                  <<"E", "q", "u", "i", "p", "m", "e", "n", "t", " ", "n", "o", "t", " ", "f", "o", "u", "n", "d", ".">>
              [] msg = "Failed to create equipment." ->
                  <<"F", "a", "i", "l", "e", "d", " ", "t", "o", " ", "c", "r", "e", "a", "t", "e", " ", "e", "q", "u", "i", "p", "m", "e", "n", "t", ".">>
              [] msg = "Failed to update equipment." ->
                  <<"F", "a", "i", "l", "e", "d", " ", "t", "o", " ", "u", "p", "d", "a", "t", "e", " ", "e", "q", "u", "i", "p", "m", "e", "n", "t", ".">>
              [] msg = "Internal server error." ->
                  <<"I", "n", "t", "e", "r", "n", "a", "l", " ", "s", "e", "r", "v", "e", "r", " ", "e", "r", "r", "o", "r", ".">>
              [] msg = "Invalid equipment id." ->
                  <<"I", "n", "v", "a", "l", "i", "d", " ", "e", "q", "u", "i", "p", "m", "e", "n", "t", " ", "i", "d", ".">>
              [] msg = "Invalid request body." ->
                  <<"I", "n", "v", "a", "l", "i", "d", " ", "r", "e", "q", "u", "e", "s", "t", " ", "b", "o", "d", "y", ".">>
              [] msg = "Last cleaned date is required." ->
                  <<"L", "a", "s", "t", " ", "c", "l", "e", "a", "n", "e", "d", " ", "d", "a", "t", "e", " ", "i", "s", " ", "r", "e", "q", "u", "i", "r", "e", "d", ".">>
              [] msg = "Last cleaned date must be in YYYY-MM-DD format." ->
                  <<"L", "a", "s", "t", " ", "c", "l", "e", "a", "n", "e", "d", " ", "d", "a", "t", "e", " ", "m", "u", "s", "t", " ", "b", "e", " ", "i", "n", " ", "Y", "Y", "Y", "Y", "-", "M", "M", "-", "D", "D", " ", "f", "o", "r", "m", "a", "t", ".">>
              [] msg = "Name is required and must be at least 2 characters." ->
                  <<"N", "a", "m", "e", " ", "i", "s", " ", "r", "e", "q", "u", "i", "r", "e", "d", " ", "a", "n", "d", " ", "m", "u", "s", "t", " ", "b", "e", " ", "a", "t", " ", "l", "e", "a", "s", "t", " ", "2", " ", "c", "h", "a", "r", "a", "c", "t", "e", "r", "s", ".">>
              [] msg = "Status is required and must be a valid option." ->
                  <<"S", "t", "a", "t", "u", "s", " ", "i", "s", " ", "r", "e", "q", "u", "i", "r", "e", "d", " ", "a", "n", "d", " ", "m", "u", "s", "t", " ", "b", "e", " ", "a", " ", "v", "a", "l", "i", "d", " ", "o", "p", "t", "i", "o", "n", ".">>
              [] msg = "Type is required and must be a valid option." ->
                  <<"T", "y", "p", "e", " ", "i", "s", " ", "r", "e", "q", "u", "i", "r", "e", "d", " ", "a", "n", "d", " ", "m", "u", "s", "t", " ", "b", "e", " ", "a", " ", "v", "a", "l", "i", "d", " ", "o", "p", "t", "i", "o", "n", ".">>
        \* the reason phrase of a status code
        StatusText(code) ==
            CASE code = 200 -> <<"O", "K">>
              [] code = 201 -> <<"C", "r", "e", "a", "t", "e", "d">>
              [] code = 204 -> <<"N", "o", " ", "C", "o", "n", "t", "e", "n", "t">>
              [] code = 400 -> <<"B", "a", "d", " ", "R", "e", "q", "u", "e", "s", "t">>
              [] code = 404 -> S_NotFound
              [] code = 500 -> <<"I", "n", "t", "e", "r", "n", "a", "l", " ", "S", "e", "r", "v", "e", "r", " ", "E", "r", "r", "o", "r">>
        \* a row as res.json writes it
        RowToJson(row) ==
            JsonObject(<<Member(<<"i", "d">>, [t |-> "number", s |-> NumberToString(row.id)]),
                         Member(<<"n", "a", "m", "e">>, Str(row.name)),
                         Member(<<"t", "y", "p", "e">>, Str(row.type)),
                         Member(<<"s", "t", "a", "t", "u", "s">>, Str(row.status)),
                         Member(<<"l", "a", "s", "t", "C", "l", "e", "a", "n", "e", "d", "D", "a", "t", "e">>, Str(row.lastCleanedDate))>>)
        data == IF r.kind = "message"
                THEN JsonObject(<<Member(<<"m", "e", "s", "s", "a", "g", "e">>,
                                         Str(Chars(r.message)))>>)
                ELSE IF r.kind = "row" THEN RowToJson(r.rows[1])
                ELSE JsonArray([i \in 1..Len(r.rows) |-> RowToJson(r.rows[i])])
    IN  IF r.kind = "empty"
        THEN Response(r.status, StatusText(r.status), <<>>, <<>>, <<>>)
        ELSE Response(r.status, StatusText(r.status), S_ApplicationJsonUtf8,
                      <<data>>, JsonStringify(data))

\* body: JSON.stringify(payload), as express.json() hands it to the handler
BodyOf(data) ==
    [isRecord |-> TRUE, name |-> Str(data.name), type |-> Str(data.type),
     status |-> Str(data.status), lastCleanedDate |-> Str(data.lastCleanedDate),
     id |-> Undefined]

\* the request a task is waiting on
RequestOf(task) ==
    IF task.pc = "reload" THEN [op |-> "GET", id |-> <<>>, body |-> NoBody]
    ELSE IF task.method = "POST"
         THEN [op |-> "POST", id |-> <<>>, body |-> BodyOf(task.payload[1])]
    ELSE IF task.method = "PUT"
         THEN [op |-> "PUT", id |-> NumberToString(task.id), body |-> BodyOf(task.payload[1])]
    ELSE [op |-> "DELETE", id |-> NumberToString(task.id), body |-> NoBody]

\* the request function a task is waiting in
ViaOf(task) ==
    IF task.pc = "mutation" /\ task.method = "DELETE" THEN "requestVoid" ELSE "requestJson"

\* the task waits for an answer that has not come
Waiting(task) == task.pc \in {"mutation", "reload"} /\ task.response = <<>>

\* the task's request has its answer
Answered(task) == task.pc \in {"mutation", "reload"} /\ task.response # <<>>

\* the slot of the next call of handleSubmit or handleDelete
FreeTask == CHOOSE t \in 1..MaxActions : tasks[t].pc = "unused" /\ \A u \in 1..(t - 1) : tasks[u].pc # "unused"

\* the rows the store holds when the page is opened
StoredRow(i) ==
    [id |-> i, name |-> IF i = 1 THEN <<"A">> ELSE <<"b">>, type |-> S_Mixer,
     status |-> S_Inactive, lastCleanedDate |-> S_2023_12_31]

ClientInit ==
    /\ \E n \in 0..1 :
          /\ store = {StoredRow(i) : i \in 1..n}
          /\ seq = n
    /\ req = NoReq
    /\ res = NoRes
    /\ issued = {}
    /\ DisplayInitial
    /\ FormInitial
    /\ BannerInitial
    /\ ClientInitial
    /\ RaceInitial

\* useEffect(() => { void loadEquipment() }): loadEquipment up to its await
useEffectLoadEquipment ==
    /\ tasks[0].pc = "unused"
    /\ loading' = TRUE
    /\ error' = <<>>
    /\ tasks' = [tasks EXCEPT ![0] = [kind |-> "load", pc |-> "reload", method |-> "",
                                      id |-> 0, payload |-> <<>>, response |-> <<>>]]
    /\ UNCHANGED <<equipment, displayedEquipment, editingEquipment, isFormVisible>>
    /\ UNCHANGED <<backendVars, notClient>>

handleAddClick ==
    /\ tasks[0].pc # "unused"
    /\ ~loading
    /\ editingEquipment' = <<>>
    /\ isFormVisible' = TRUE
    /\ UNCHANGED <<equipment, displayedEquipment, error, loading, tasks>>
    /\ UNCHANGED <<backendVars, notClient>>

handleEdit(selected) ==
    /\ tasks[0].pc # "unused"
    /\ editingEquipment' = <<selected>>
    /\ isFormVisible' = TRUE
    /\ UNCHANGED <<equipment, displayedEquipment, error, loading, tasks>>
    /\ UNCHANGED <<backendVars, notClient>>

handleCancel ==
    /\ isFormVisible
    /\ isFormVisible' = FALSE
    /\ editingEquipment' = <<>>
    /\ UNCHANGED <<equipment, displayedEquipment, error, loading, tasks>>
    /\ UNCHANGED <<backendVars, notClient>>

\* handleSubmit of App up to its first await
handleSubmit(payload) ==
    /\ isFormVisible
    /\ \E t \in 1..MaxActions : tasks[t].pc = "unused"
    /\ loading' = TRUE
    /\ error' = <<>>
    /\ tasks' = [tasks EXCEPT ![FreeTask] =
                    IF editingEquipment # <<>>
                    THEN [kind |-> "submit", pc |-> "mutation", method |-> "PUT",
                          id |-> editingEquipment[1].id, payload |-> <<payload>>,
                          response |-> <<>>]
                    ELSE [kind |-> "submit", pc |-> "mutation", method |-> "POST",
                          id |-> 0, payload |-> <<payload>>, response |-> <<>>]]
    /\ UNCHANGED <<equipment, displayedEquipment, editingEquipment, isFormVisible>>
    /\ UNCHANGED <<backendVars, notClient>>

\* handleDelete of the table, confirmed, and of App up to its first await
handleDelete(id) ==
    /\ tasks[0].pc # "unused"
    /\ \E t \in 1..MaxActions : tasks[t].pc = "unused"
    /\ loading' = TRUE
    /\ error' = <<>>
    /\ tasks' = [tasks EXCEPT ![FreeTask] =
                    [kind |-> "delete", pc |-> "mutation", method |-> "DELETE",
                     id |-> id, payload |-> <<>>, response |-> <<>>]]
    /\ UNCHANGED <<equipment, displayedEquipment, editingEquipment, isFormVisible>>
    /\ UNCHANGED <<backendVars, notClient>>

\* fetch resolves with the response the handler wrote
fetchResolves(t) ==
    /\ req # NoReq
    /\ Waiting(tasks[t])
    /\ RequestOf(tasks[t]) = req
    /\ tasks' = [tasks EXCEPT ![t].response = <<Resolved(ViaOf(tasks[t]), ToResponse(res))>>]
    /\ req' = NoReq
    /\ res' = NoRes
    /\ UNCHANGED <<store, seq, issued>>
    /\ UNCHANGED <<equipment, displayedEquipment, error, loading, editingEquipment,
                   isFormVisible>>
    /\ UNCHANGED notClient

\* fetch rejects: the request did not reach the backend
fetchRejects(t) ==
    /\ req = NoReq
    /\ Waiting(tasks[t])
    /\ tasks' = [tasks EXCEPT ![t].response =
                    <<Rejected(ViaOf(tasks[t]),
                               JsError("TypeError", <<"F", "a", "i", "l", "e", "d", " ", "t", "o", " ", "f", "e", "t", "c", "h">>))>>]
    /\ UNCHANGED <<equipment, displayedEquipment, error, loading, editingEquipment,
                   isFormVisible>>
    /\ UNCHANGED <<backendVars, notClient>>

\* variant: the list is reloaded whether the mutating call threw or not
resumeAfterMutation_AlwaysReloads(t) ==
    /\ Answered(tasks[t])
    /\ tasks[t].pc = "mutation"
    /\ error' = <<>>
    /\ loading' = TRUE
    /\ tasks' = [tasks EXCEPT ![t].pc = "reload", ![t].response = <<>>]
    /\ UNCHANGED <<equipment, displayedEquipment, editingEquipment, isFormVisible>>
    /\ UNCHANGED <<backendVars, notClient>>

\* handleSubmit and handleDelete after the await of the mutating call: the
\* catch and finally blocks when it threw, loadEquipment up to its await
\* when it did not
resumeAfterMutation(t) ==
    LET result == Request(tasks[t].response[1])
    IN  /\ Answered(tasks[t])
        /\ tasks[t].pc = "mutation"
        /\ IF result.threw
           THEN /\ error' = <<getErrorMessage(result.value)>>
                /\ loading' = FALSE
                /\ tasks' = [tasks EXCEPT ![t] = DoneTask]
           ELSE /\ error' = <<>>
                /\ loading' = TRUE
                /\ tasks' = [tasks EXCEPT ![t].pc = "reload", ![t].response = <<>>]
        /\ UNCHANGED <<equipment, displayedEquipment, editingEquipment, isFormVisible>>
        /\ UNCHANGED <<backendVars, notClient>>

\* loadEquipment after its await, and the rest of the handler that awaited it
resumeAfterLoadEquipment(t) ==
    LET outcome == tasks[t].response[1]
        result == Request(outcome)
    IN  /\ Answered(tasks[t])
        /\ tasks[t].pc = "reload"
        /\ IF result.threw
           THEN /\ error' = <<getErrorMessage(result.value)>>
                /\ UNCHANGED <<equipment, displayedEquipment>>
           ELSE /\ equipment' = JsonToEquipmentList(outcome.response.json[1])
                /\ displayedEquipment' =
                      DisplayedEquipment(equipment', searchQuery, statusFilter, sortOption)
                /\ error' = error
        /\ loading' = FALSE
        /\ IF tasks[t].kind = "submit"
           THEN /\ isFormVisible' = FALSE
                /\ editingEquipment' = <<>>
           ELSE UNCHANGED <<isFormVisible, editingEquipment>>
        /\ tasks' = [tasks EXCEPT ![t] = DoneTask]
        /\ UNCHANGED <<backendVars, notClient>>

\* onClose of the Alert
dismissError ==
    /\ error # <<>>
    /\ error' = <<>>
    /\ UNCHANGED <<equipment, displayedEquipment, loading, editingEquipment,
                   isFormVisible, tasks>>
    /\ UNCHANGED <<backendVars, notClient>>

ClientNext ==
    \/ useEffectLoadEquipment
    \/ handleAddClick
    \/ \E i \in 1..Len(displayedEquipment) : handleEdit(displayedEquipment[i])
    \/ handleCancel
    \/ \E payload \in {[name |-> S_Tk, type |-> S_Tank, status |-> S_Active, lastCleanedDate |-> S_2024_01_15]} : handleSubmit(payload)
    \/ \E i \in 1..Len(displayedEquipment) : handleDelete(displayedEquipment[i].id)
    \/ \E t \in TaskIds :
          /\ Waiting(tasks[t]) /\ tasks[t].pc = "reload"
          /\ getAllEquipment
    \/ \E t \in TaskIds :
          /\ Waiting(tasks[t]) /\ tasks[t].pc = "mutation" /\ tasks[t].method = "POST"
          /\ createEquipment(RequestOf(tasks[t]).body)
    \/ \E t \in TaskIds :
          /\ Waiting(tasks[t]) /\ tasks[t].pc = "mutation" /\ tasks[t].method = "PUT"
          /\ updateEquipment(RequestOf(tasks[t]).id, RequestOf(tasks[t]).body)
    \/ \E t \in TaskIds :
          /\ Waiting(tasks[t]) /\ tasks[t].pc = "mutation" /\ tasks[t].method = "DELETE"
          /\ deleteEquipment(RequestOf(tasks[t]).id)
    \/ \E t \in TaskIds : fetchResolves(t)
    \/ \E t \in TaskIds : fetchRejects(t)
    \/ \E t \in TaskIds : resumeAfterMutation(t)
    \/ \E t \in TaskIds : resumeAfterLoadEquipment(t)
    \/ dismissError

SpecClient == ClientInit /\ [][ClientNext]_vars

(***************************************************************************)
(* The handlers of the controller with their awaits: every dbGet and dbRun *)
(* is a store call of its own, and the calls of the requests in progress   *)
(* run in any order                                                        *)
(***************************************************************************)
\* the handler of p has answered
Responds(p, response) == [procs EXCEPT ![p].pc = "done", ![p].res = response]

RaceBodies ==
    {NoBody,
     BodyOf([name |-> S_Tk, type |-> S_Tank, status |-> S_Active,
             lastCleanedDate |-> S_2024_01_15]),
     BodyOf([name |-> <<"T", "k", "2">>, type |-> S_Mixer, status |-> S_Inactive,
             lastCleanedDate |-> S_2023_12_31])}

RaceIdParams == {<<"1">>, <<"2">>, <<"x">>}

RaceInit ==
    /\ \E n \in 0..1 :
          /\ store = {StoredRow(i) : i \in 1..n}
          /\ seq = n
    /\ req = NoReq
    /\ res = NoRes
    /\ issued = {}
    /\ DisplayInitial
    /\ FormInitial
    /\ BannerInitial
    /\ ClientInitial
    /\ RaceInitial

\* createEquipment up to its first await
createEquipmentBegin(p, body) ==
    LET parsed == validatePayload(body)
    IN  /\ procs[p].pc = "idle"
        /\ procs' = IF ~parsed.ok
                    THEN [procs EXCEPT ![p] = [NoProc EXCEPT !.op = "POST", !.pc = "done",
                                                  !.res = JsonMessage(400, parsed.message)]]
                    ELSE [procs EXCEPT ![p] = [NoProc EXCEPT !.op = "POST", !.pc = "insert",
                                                  !.data = parsed.data]]
        /\ UNCHANGED <<store, seq>>
        /\ UNCHANGED notRace

\* await dbRun('INSERT ...')
createEquipmentInsert(p) ==
    LET result == dbRunInsert(store, seq, procs[p].data)
    IN  /\ procs[p].pc = "insert"
        /\ seq < MaxId
        /\ IF result.error
           THEN /\ procs' = Responds(p, JsonMessage(500, "Internal server error."))
                /\ UNCHANGED <<store, seq>>
           ELSE /\ store' = result.rows
                /\ seq' = result.seq
                /\ procs' = [procs EXCEPT ![p].pc = "created", ![p].lastID = result.lastID]
        /\ UNCHANGED notRace

\* await dbGet('SELECT ... WHERE id = ?', [result.lastID]) and the answer
createEquipmentReadBack(p) ==
    LET created == dbGet(store, procs[p].lastID)
    IN  /\ procs[p].pc = "created"
        /\ procs' = IF created = <<>>
                    THEN Responds(p, JsonMessage(500, "Failed to create equipment."))
                    ELSE Responds(p, JsonRow(201, created[1]))
        /\ UNCHANGED <<store, seq>>
        /\ UNCHANGED notRace

\* updateEquipment up to its first await
updateEquipmentBegin(p, idParam, body) ==
    LET id == parseId(idParam)
        parsed == validatePayload(body)
    IN  /\ procs[p].pc = "idle"
        /\ procs' = IF id = NoId
                    THEN [procs EXCEPT ![p] = [NoProc EXCEPT !.op = "PUT", !.pc = "done",
                                                  !.res = JsonMessage(400, "Invalid equipment id.")]]
                    ELSE IF ~parsed.ok
                    THEN [procs EXCEPT ![p] = [NoProc EXCEPT !.op = "PUT", !.pc = "done", !.id = id,
                                                  !.res = JsonMessage(400, parsed.message)]]
                    ELSE [procs EXCEPT ![p] = [NoProc EXCEPT !.op = "PUT", !.pc = "existing",
                                                  !.id = id, !.data = parsed.data]]
        /\ UNCHANGED <<store, seq>>
        /\ UNCHANGED notRace

\* await dbGet('SELECT ... WHERE id = ?', [id]): existing
updateEquipmentExisting(p) ==
    LET existing == dbGet(store, procs[p].id)
    IN  /\ procs[p].pc = "existing"
        /\ procs' = IF existing = <<>>
                    THEN Responds(p, JsonMessage(404, "Equipment not found."))
                    ELSE [procs EXCEPT ![p].pc = "update"]
        /\ UNCHANGED <<store, seq>>
        /\ UNCHANGED notRace

\* await dbRun('UPDATE ... WHERE id = ?')
updateEquipmentRun(p) ==
    /\ procs[p].pc = "update"
    /\ store' = dbRunUpdate(store, procs[p].data, procs[p].id)
    /\ procs' = [procs EXCEPT ![p].pc = "updated"]
    /\ UNCHANGED seq
    /\ UNCHANGED notRace

\* await dbGet('SELECT ... WHERE id = ?', [id]): updated, and the answer
updateEquipmentReadBack(p) ==
    LET updated == dbGet(store, procs[p].id)
    IN  /\ procs[p].pc = "updated"
        /\ procs' = IF updated = <<>>
                    THEN Responds(p, JsonMessage(500, "Failed to update equipment."))
                    ELSE Responds(p, JsonRow(200, updated[1]))
        /\ UNCHANGED <<store, seq>>
        /\ UNCHANGED notRace

\* deleteEquipment up to its await
deleteEquipmentBegin(p, idParam) ==
    LET id == parseId(idParam)
    IN  /\ procs[p].pc = "idle"
        /\ procs' = IF id = NoId
                    THEN [procs EXCEPT ![p] = [NoProc EXCEPT !.op = "DELETE", !.pc = "done",
                                                  !.res = JsonMessage(400, "Invalid equipment id.")]]
                    ELSE [procs EXCEPT ![p] = [NoProc EXCEPT !.op = "DELETE", !.pc = "delete",
                                                  !.id = id]]
        /\ UNCHANGED <<store, seq>>
        /\ UNCHANGED notRace

\* await dbRun('DELETE FROM equipment WHERE id = ?') and the answer
deleteEquipmentRun(p) ==
    LET result == dbRunDelete(store, procs[p].id)
    IN  /\ procs[p].pc = "delete"
        /\ store' = result.rows
        /\ procs' = IF result.changes = 0
                    THEN Responds(p, JsonMessage(404, "Equipment not found."))
                    ELSE Responds(p, SendEmpty(204))
        /\ UNCHANGED seq
        /\ UNCHANGED notRace

\* the answer is written out and the request is over
sendResponse(p) ==
    /\ procs[p].pc = "done"
    /\ procs' = [procs EXCEPT ![p] = NoProc]
    /\ UNCHANGED <<store, seq>>
    /\ UNCHANGED notRace

RaceNext ==
    \/ \E p \in ProcIds, body \in RaceBodies : createEquipmentBegin(p, body)
    \/ \E p \in ProcIds : createEquipmentInsert(p)
    \/ \E p \in ProcIds : createEquipmentReadBack(p)
    \/ \E p \in ProcIds, idParam \in RaceIdParams, body \in RaceBodies :
          updateEquipmentBegin(p, idParam, body)
    \/ \E p \in ProcIds : updateEquipmentExisting(p)
    \/ \E p \in ProcIds : updateEquipmentRun(p)
    \/ \E p \in ProcIds : updateEquipmentReadBack(p)
    \/ \E p \in ProcIds, idParam \in RaceIdParams : deleteEquipmentBegin(p, idParam)
    \/ \E p \in ProcIds : deleteEquipmentRun(p)
    \/ \E p \in ProcIds : sendResponse(p)

SpecRace == RaceInit /\ [][RaceNext]_vars

(***************************************************************************)
(* Vocabulary of the properties                                            *)
(***************************************************************************)
Ids(rows) == {r.id : r \in rows}

\* the id a path parameter written as one decimal digit names, 0 otherwise
DecimalId(idParam) ==
    IF \E n \in 1..MaxId : idParam = <<DigitChar(n)>>
    THEN CHOOSE n \in 1..MaxId : idParam = <<DigitChar(n)>>
    ELSE 0

\* four digits, dash, two digits, dash, two digits, nothing else
MatchesYYYYMMDD(s) ==
    /\ Len(s) = 10
    /\ \A i \in 1..10 : IF i \in {5, 8} THEN s[i] = "-" ELSE IsDigit(s[i])

\* the row a payload turns into once the store has given it an id
RowOf(id, name, type, status, lastCleanedDate) ==
    [id |-> id, name |-> name, type |-> type, status |-> status,
     lastCleanedDate |-> lastCleanedDate]

\* a handler answers a request in this step
Answers(op) == req = NoReq /\ req'.op = op

(***************************************************************************)
(* C1: for every payload that passes validation, a create answered 201     *)
(* followed by a list returns a record whose name, type, status and        *)
(* lastCleanedDate equal the fields of the payload, under the id of the    *)
(* response.                                                               *)
(* As stated this fails: name and lastCleanedDate are stored trimmed.      *)
(***************************************************************************)
C1_CreateThenListEqualsInput ==
    (req.op = "POST" /\ res.status = 201) =>
        \E i \in 1..Len(dbAll(store)) :
            dbAll(store)[i] = RowOf(res.rows[1].id, req.body.name.s, req.body.type.s,
                                    req.body.status.s, req.body.lastCleanedDate.s)

\* C1 as amended: the record equals the payload with name and
\* lastCleanedDate stripped of leading and trailing white space, type and
\* status as given, and it is the only listed record with that id.
C1_CreateThenListEqualsTrimmedInput ==
    (req.op = "POST" /\ res.status = 201) =>
        LET listed == dbAll(store)
            expected == RowOf(res.rows[1].id, Trim(req.body.name.s), req.body.type.s,
                              req.body.status.s, Trim(req.body.lastCleanedDate.s))
        IN  /\ res.rows[1] = expected
            /\ Cardinality({i \in 1..Len(listed) : listed[i] = expected}) = 1
            /\ Cardinality({i \in 1..Len(listed) : listed[i].id = expected.id}) = 1

C1_Witness ==
    /\ req.op = "POST"
    /\ res.status = 201
    /\ req.body.name.s # Trim(req.body.name.s)
    /\ req.body.lastCleanedDate.s # Trim(req.body.lastCleanedDate.s)
    /\ Cardinality(store) >= 2

(***************************************************************************)
(* C2: for every existing record and every payload that passes validation, *)
(* update answers 200, overwrites name, type, status and lastCleanedDate   *)
(* of that record with the values of the payload, keeps its id and leaves  *)
(* every other record unchanged.                                           *)
(* As stated this fails: the values written are the trimmed ones.          *)
(***************************************************************************)
C2_UpdateWritesPayload ==
    [][(/\ Answers("PUT")
        /\ DecimalId(req'.id) \in Ids(store)
        /\ validatePayload(req'.body).ok)
       => LET id == DecimalId(req'.id)
              new == RowOf(id, req'.body.name.s, req'.body.type.s,
                           req'.body.status.s, req'.body.lastCleanedDate.s)
          IN  /\ res'.status = 200
              /\ store' = {r \in store : r.id # id} \cup {new}]_vars

\* C2 as amended: the values written are those of the payload with name
\* and lastCleanedDate stripped of leading and trailing white space.
C2_UpdateWritesTrimmedPayload ==
    [][(/\ Answers("PUT")
        /\ DecimalId(req'.id) \in Ids(store)
        /\ validatePayload(req'.body).ok)
       => LET id == DecimalId(req'.id)
              new == RowOf(id, Trim(req'.body.name.s), req'.body.type.s,
                           req'.body.status.s, Trim(req'.body.lastCleanedDate.s))
          IN  /\ res'.status = 200
              /\ res'.rows = <<new>>
              /\ store' = {r \in store : r.id # id} \cup {new}
              /\ Ids(store') = Ids(store)]_vars

C2_Witness ==
    /\ req.op = "PUT"
    /\ res.status = 200
    /\ req.body.name.s # Trim(req.body.name.s)
    /\ \E r \in store : r.id # res.rows[1].id
                        /\ r.lastCleanedDate # res.rows[1].lastCleanedDate

(***************************************************************************)
(* C3: delete of an id that is not in the store (never created, or already *)
(* deleted) answers 404, never success, and leaves the store unchanged;    *)
(* after a delete answered 204 the id is not in the store, so deleting it  *)
(* again answers 404.  The ids are read as well-formed ids (decimal        *)
(* positive integers); any other path parameter names no row and is        *)
(* answered without success and without a change of the store as well.     *)
(***************************************************************************)
C3_DeleteMissingIsNotFound ==
    [][Answers("DELETE") =>
        /\ (DecimalId(req'.id) # 0 /\ DecimalId(req'.id) \notin Ids(store))
              => (res'.status = 404 /\ store' = store)
        /\ DecimalId(req'.id) \notin Ids(store)
              => (res'.status \notin {200, 201, 204} /\ store' = store)
        /\ res'.status = 204
              => (DecimalId(req'.id) \in Ids(store)
                  /\ DecimalId(req'.id) \notin Ids(store'))]_vars

\* an id once issued and no longer in the store is deleted again
C3_Witness ==
    /\ req.op = "DELETE"
    /\ res.status = 404
    /\ DecimalId(req.id) \in issued
    /\ DecimalId(req.id) \notin Ids(store)
    /\ store # {}

(***************************************************************************)
(* C4: for every payload whose type is not one of Machine, Vessel, Tank,   *)
(* Mixer or whose status is not one of Active, Inactive, Under Maintenance,*)
(* create and update answer 400 and leave the store unchanged.             *)
(***************************************************************************)
C4_BadEnumRejected ==
    [][(/\ Answers("POST") \/ Answers("PUT")
        /\ \/ req'.body.type.t # "string"
           \/ req'.body.type.s \notin {S_Machine, S_Vessel, S_Tank, S_Mixer}
           \/ req'.body.status.t # "string"
           \/ req'.body.status.s \notin {S_Active, S_Inactive, S_UnderMaintenance})
       => (res'.status = 400 /\ store' = store /\ seq' = seq)]_vars

\* an update of an existing row with a good name and date and a bad status
C4_Witness ==
    /\ req.op = "PUT"
    /\ DecimalId(req.id) \in Ids(store)
    /\ req.body.name = Str(S_Tk)
    /\ req.body.type = Str(S_Tank)
    /\ req.body.status.s \notin STATUS_OPTIONS
    /\ req.body.lastCleanedDate = Str(S_2024_01_15)
    /\ res.status = 400

(***************************************************************************)
(* C5: for every payload whose lastCleanedDate does not match YYYY-MM-DD   *)
(* (four digits, dash, two digits, dash, two digits, nothing else), create *)
(* and update answer 400 and do not change the store.                      *)
(* As stated this fails: the pattern is tested on the trimmed string, so   *)
(* a date with white space around it is accepted.                          *)
(***************************************************************************)
C5_NonMatchingDateRejected ==
    [][(/\ Answers("POST") \/ Answers("PUT")
        /\ \/ req'.body.lastCleanedDate.t # "string"
           \/ ~MatchesYYYYMMDD(req'.body.lastCleanedDate.s))
       => (res'.status = 400 /\ store' = store)]_vars

\* C5 as amended: the payloads rejected are those whose lastCleanedDate is
\* not a string or, stripped of leading and trailing white space, does not
\* match YYYY-MM-DD.
C5_NonMatchingTrimmedDateRejected ==
    [][(/\ Answers("POST") \/ Answers("PUT")
        /\ \/ req'.body.lastCleanedDate.t # "string"
           \/ ~MatchesYYYYMMDD(Trim(req'.body.lastCleanedDate.s)))
       => (res'.status = 400 /\ store' = store /\ seq' = seq)]_vars

\* an update of an existing row, all else valid, with the date 2024-1-15
C5_Witness ==
    /\ req.op = "PUT"
    /\ DecimalId(req.id) \in Ids(store)
    /\ req.body.name = Str(S_Tk)
    /\ req.body.type = Str(S_Tank)
    /\ req.body.status = Str(S_Active)
    /\ req.body.lastCleanedDate.t = "string"
    /\ Len(req.body.lastCleanedDate.s) = 9
    /\ res.status = 400

(***************************************************************************)
(* C6: a payload that is otherwise valid and whose lastCleanedDate matches *)
(* YYYY-MM-DD but is no day of the calendar (2024-02-30) is accepted by    *)
(* create and by update of an existing row, and the date is stored exactly *)
(* as given.                                                               *)
(***************************************************************************)
OtherwiseValid(body) ==
    validatePayload([body EXCEPT !.lastCleanedDate = Str(S_2024_01_15)]).ok

ImpossibleDate(body) ==
    /\ body.lastCleanedDate.t = "string"
    /\ MatchesYYYYMMDD(body.lastCleanedDate.s)
    /\ ~IsCalendarDate(body.lastCleanedDate.s)

C6_ImpossibleDateAccepted ==
    [][(/\ Answers("POST") \/ Answers("PUT")
        /\ OtherwiseValid(req'.body)
        /\ ImpossibleDate(req'.body)
        /\ req'.op = "PUT" => DecimalId(req'.id) \in Ids(store))
       => /\ res'.status = IF req'.op = "POST" THEN 201 ELSE 200
          /\ res'.kind = "row"
          /\ res'.rows[1].lastCleanedDate = req'.body.lastCleanedDate.s
          /\ res'.rows[1] \in store'
          /\ req'.op = "PUT" => res'.rows[1].id = DecimalId(req'.id)]_vars

\* the store holds 2024-02-30 from a create and from an update
C6_Witness ==
    /\ req.op = "PUT"
    /\ res.status = 200
    /\ req.body.lastCleanedDate = Str(S_2024_02_30)
    /\ \A r \in store : r.lastCleanedDate = S_2024_02_30
    /\ Cardinality(store) >= 2

(***************************************************************************)
(* C7: after any sequence of create, update and delete requests, valid or  *)
(* not, every record in the store has a name of at least 2 characters      *)
(* after trimming, a type in Machine, Vessel, Tank, Mixer, a status in     *)
(* Active, Inactive, Under Maintenance and a lastCleanedDate matching      *)
(* YYYY-MM-DD.                                                             *)
(***************************************************************************)
C7_StoredRecordsValid ==
    \A r \in store :
        /\ Len(Trim(r.name)) >= 2
        /\ r.type \in {S_Machine, S_Vessel, S_Tank, S_Mixer}
        /\ r.status \in {S_Active, S_Inactive, S_UnderMaintenance}
        /\ MatchesYYYYMMDD(r.lastCleanedDate)

\* two records are stored and an update with a bad status was just refused
C7_Witness ==
    /\ Cardinality(store) >= 2
    /\ req.op = "PUT"
    /\ DecimalId(req.id) \in Ids(store)
    /\ req.body.status.s \notin STATUS_OPTIONS
    /\ req.body.lastCleanedDate.s # Trim(req.body.lastCleanedDate.s)
    /\ res.status = 400

(***************************************************************************)
(* C8: ids are assigned only by the store: each create answered 201 gets   *)
(* an id strictly greater than every id assigned before it, 1 on a fresh   *)
(* store, whatever was deleted in between and whatever id field the        *)
(* payload carries; no two records share an id, and an id once deleted is  *)
(* never in the store again.                                               *)
(***************************************************************************)
C8_IdsUnique ==
    /\ \A r1, r2 \in store : r1.id = r2.id => r1 = r2
    /\ Ids(store) \subseteq issued

C8_IdsAscend ==
    /\ Answers("POST") /\ res'.status = 201
          => /\ \A i \in issued : res'.rows[1].id > i
             /\ issued = {} => res'.rows[1].id = 1
             /\ Ids(store') = Ids(store) \cup {res'.rows[1].id}
    /\ \A i \in issued : i \notin Ids(store) => i \notin Ids(store')

C8_IdsAssignedByStore == []C8_IdsUnique /\ [][C8_IdsAscend]_vars

\* a create with an id field in its payload, after an earlier id was deleted
C8_Witness ==
    /\ req.op = "POST"
    /\ res.status = 201
    /\ req.body.id # Undefined
    /\ \E i \in issued : i < res.rows[1].id /\ i \notin Ids(store)

(***************************************************************************)
(* C9: list answers 200 with every record now in the store, each exactly   *)
(* once, in strictly ascending order of id, and does not change the store. *)
(***************************************************************************)
C9_ListAllAscending ==
    [][Answers("GET") =>
        /\ res'.status = 200
        /\ res'.kind = "rows"
        /\ {res'.rows[i] : i \in 1..Len(res'.rows)} = store
        /\ Len(res'.rows) = Cardinality(store)
        /\ \A i, j \in 1..Len(res'.rows) : i < j => res'.rows[i].id < res'.rows[j].id
        /\ store' = store
        /\ seq' = seq]_vars

\* a list of two records or more that leaves out a deleted id
C9_Witness ==
    /\ req.op = "GET"
    /\ Len(res.rows) >= 2
    /\ \E i \in issued : i \notin Ids(store) /\ i < res.rows[2].id

(***************************************************************************)
(* C10: update settles its answer in this order: an id path parameter that *)
(* does not parse to a positive integer gives 400 (invalid id) whatever    *)
(* the payload; otherwise a payload that fails validation gives 400 even   *)
(* when no row has that id; otherwise a missing row gives 404; the store   *)
(* is unchanged in all three cases.  Delete gives 400 as well for an id    *)
(* that does not parse to a positive integer.                              *)
(***************************************************************************)
C10_UpdateOrder ==
    [][/\ Answers("PUT") =>
            IF DecimalId(req'.id) = 0
            THEN /\ res'.status = 400
                 /\ res'.message = "Invalid equipment id."
                 /\ store' = store
            ELSE IF ~validatePayload(req'.body).ok
            THEN /\ res'.status = 400
                 /\ res'.message # "Invalid equipment id."
                 /\ store' = store
            ELSE DecimalId(req'.id) \notin Ids(store)
                    => (res'.status = 404 /\ store' = store)
       /\ (Answers("DELETE") /\ DecimalId(req'.id) = 0)
            => (res'.status = 400 /\ store' = store)]_vars

\* an update with a well-formed id that no row has and an invalid payload
C10_Witness ==
    /\ req.op = "PUT"
    /\ DecimalId(req.id) # 0
    /\ DecimalId(req.id) \notin Ids(store)
    /\ ~validatePayload(req.body).ok
    /\ res.status = 400
    /\ store # {}

(***************************************************************************)
(* C11: delete of an id that is in the store answers 204 with no body and  *)
(* removes exactly that record: the store afterwards holds the records it  *)
(* held before minus the one with that id, all others unchanged.           *)
(***************************************************************************)
C11_DeleteRemovesExactlyOne ==
    [][(Answers("DELETE") /\ DecimalId(req'.id) \in Ids(store))
       => /\ res'.status = 204
          /\ res'.kind = "empty"
          /\ store' = {r \in store : r.id # DecimalId(req'.id)}
          /\ Cardinality(store') = Cardinality(store) - 1
          /\ seq' = seq]_vars

\* a delete answered 204 that left another record in the store
C11_Witness ==
    /\ req.op = "DELETE"
    /\ res.status = 204
    /\ store # {}
    /\ \E r \in store : r.id > DecimalId(req.id)

(***************************************************************************)
(* C12: for every fetched record set, query and status filter, the         *)
(* displayed list holds exactly the records whose name contains the query  *)
(* as a case-insensitive substring and whose status equals the filter      *)
(* (every status when the filter is All); no matching record is dropped or *)
(* shown twice, and the fetched record set is not modified.                *)
(* As stated this fails: the query is trimmed before it is matched.        *)
(***************************************************************************)
SameLetter(c, d) ==
    \/ c = d
    \/ /\ IndexIn(c, UpperCaseLetters) + IndexIn(c, LowerCaseLetters) # 0
       /\ IndexIn(c, UpperCaseLetters) + IndexIn(c, LowerCaseLetters)
            = IndexIn(d, UpperCaseLetters) + IndexIn(d, LowerCaseLetters)

ContainsIgnoringCase(name, query) ==
    \E k \in 0..(Len(name) - Len(query)) :
        \A i \in 1..Len(query) : SameLetter(name[k + i], query[i])

ShowsExactly(Matches(_)) ==
    /\ \A i \in 1..Len(equipment) :
          Cardinality({j \in 1..Len(displayedEquipment) :
                          displayedEquipment[j] = equipment[i]})
            = IF Matches(equipment[i]) THEN 1 ELSE 0
    /\ \A j \in 1..Len(displayedEquipment) :
          \E i \in 1..Len(equipment) : displayedEquipment[j] = equipment[i]

C12_ShowsMatchesOfQuery ==
    LET Matches(item) ==
            /\ ContainsIgnoringCase(item.name, searchQuery)
            /\ statusFilter = S_All \/ item.status = statusFilter
    IN  ShowsExactly(Matches)

\* C12 as amended: the query is matched with its leading and trailing
\* white space removed (a query of white space alone matches every name).
C12_ShowsMatchesOfTrimmedQuery ==
    LET Matches(item) ==
            /\ ContainsIgnoringCase(item.name, Trim(searchQuery))
            /\ statusFilter = S_All \/ item.status = statusFilter
    IN  ShowsExactly(Matches)

C12_FilterOriginal == []C12_ShowsMatchesOfQuery /\ [][equipment' = equipment]_vars

C12_FilterTrimmed == []C12_ShowsMatchesOfTrimmedQuery /\ [][equipment' = equipment]_vars

\* the query B under the filter Inactive keeps b and Ab and drops the third
C12_Witness ==
    /\ searchQuery = <<"B">>
    /\ statusFilter = S_Inactive
    /\ Len(equipment) = 3
    /\ Len(displayedEquipment) = 2
    /\ displayedEquipment[1].name # displayedEquipment[2].name

(***************************************************************************)
(* C13: the displayed list is ordered by the selected sort key: nameAsc    *)
(* and nameDesc order the names ascending and descending ignoring letter   *)
(* case (A, b, C sort to C, b, A under nameDesc); dateOldest and           *)
(* dateNewest order by lastCleanedDate ascending and descending, which for *)
(* fixed-width YYYY-MM-DD strings is the chronological order.              *)
(***************************************************************************)
LetterOf(c) == IndexIn(c, UpperCaseLetters) + IndexIn(c, LowerCaseLetters)

\* a comes before b, or equals it, in the alphabet, letter case ignored
RECURSIVE NameAtMost(_, _)
NameAtMost(a, b) ==
    IF a = <<>> THEN TRUE
    ELSE IF b = <<>> THEN FALSE
    ELSE IF LetterOf(Head(a)) # LetterOf(Head(b)) THEN LetterOf(Head(a)) < LetterOf(Head(b))
    ELSE NameAtMost(Tail(a), Tail(b))

\* the day a YYYY-MM-DD string names, as a number that grows with time
DayNumber(s) ==
    DecimalValue(SubSeq(s, 1, 4)) * 10000 + DecimalValue(SubSeq(s, 6, 7)) * 100
        + DecimalValue(SubSeq(s, 9, 10))

C13_SortedBySelectedKey ==
    \A i, j \in 1..Len(displayedEquipment) :
        i < j =>
            LET a == displayedEquipment[i]
                b == displayedEquipment[j]
            IN  CASE sortOption = "nameAsc" -> NameAtMost(a.name, b.name)
                  [] sortOption = "nameDesc" -> NameAtMost(b.name, a.name)
                  [] sortOption = "dateOldest" ->
                        DayNumber(a.lastCleanedDate) <= DayNumber(b.lastCleanedDate)
                  [] sortOption = "dateNewest" ->
                        DayNumber(a.lastCleanedDate) >= DayNumber(b.lastCleanedDate)

\* the names A, b, C, fetched in that order, are shown as C, b, A
C13_Witness ==
    /\ sortOption = "nameDesc"
    /\ [i \in 1..Len(equipment) |-> equipment[i].name] = <<<<"A">>, <<"b">>, <<"C">>>>
    /\ [i \in 1..Len(displayedEquipment) |-> displayedEquipment[i].name]
          = <<<<"C">>, <<"b">>, <<"A">>>>

(***************************************************************************)
(* C14: the form never submits a record whose lastCleanedDate is later     *)
(* than the current date or is not a valid date value: for such input the  *)
(* validation of the form reports an error and onSubmit is not called.     *)
(* The form does not do this: validate only asks the date to be non-empty. *)
(***************************************************************************)
FutureOrInvalidDate(s) ==
    \/ ~MatchesYYYYMMDD(s)
    \/ ~IsCalendarDate(s)
    \/ DecimalValue(SubSeq(s, 1, 4)) * 10000 + DecimalValue(SubSeq(s, 6, 7)) * 100
         + DecimalValue(SubSeq(s, 9, 10))
       > DecimalValue(SubSeq(today, 1, 4)) * 10000 + DecimalValue(SubSeq(today, 6, 7)) * 100
         + DecimalValue(SubSeq(today, 9, 10))

C14_NoFutureOrInvalidDateSubmitted ==
    (onSubmitCall.handled /\ FutureOrInvalidDate(formData.lastCleanedDate))
        => /\ onSubmitCall.args = <<>>
           /\ validate(formData).lastCleanedDate # ""

(***************************************************************************)
(* C16: the form mirrors the rules of the backend: it calls onSubmit only  *)
(* when the trimmed name has at least 2 characters, type and status are in *)
(* the enumerations and lastCleanedDate is not empty, and the name it      *)
(* submits is trimmed; every payload the backend would reject for name,    *)
(* type or status is rejected by the form as well.                         *)
(***************************************************************************)
BackendRejectsNameTypeOrStatus(data) ==
    validatePayload(BodyOf(data)).message \in
        {"Name is required and must be at least 2 characters.",
         "Type is required and must be a valid option.",
         "Status is required and must be a valid option."}

C16_FormMirrorsBackend ==
    onSubmitCall.handled =>
        /\ onSubmitCall.args # <<>> =>
              /\ Len(Trim(formData.name)) >= 2
              /\ formData.type \in {S_Machine, S_Vessel, S_Tank, S_Mixer}
              /\ formData.status \in {S_Active, S_Inactive, S_UnderMaintenance}
              /\ formData.lastCleanedDate # <<>>
              /\ onSubmitCall.args[1].name = Trim(formData.name)
              /\ onSubmitCall.args[1].type = formData.type
              /\ onSubmitCall.args[1].status = formData.status
              /\ onSubmitCall.args[1].lastCleanedDate = formData.lastCleanedDate
        /\ BackendRejectsNameTypeOrStatus(formData) =>
              /\ onSubmitCall.args = <<>>
              /\ ErrorCount(validate(formData)) > 0

\* a submit with a padded name is passed on trimmed
C16_Witness ==
    /\ onSubmitCall.handled
    /\ onSubmitCall.args # <<>>
    /\ formData.name # Trim(formData.name)
    /\ initialData # <<>>

(***************************************************************************)
(* C15: when the client shows a failed request, the text of the banner is  *)
(* the message of the server's error body, word for word, except for a     *)
(* failure to reach the server, which is replaced by the friendlier        *)
(* message that the backend may be down.                                   *)
(* As stated it fails: the request functions put "Request failed           *)
(* (<status>): " before the server's message, and the friendlier message   *)
(* is chosen by the word "fetch" in the browser's message.                 *)
(***************************************************************************)
\* the server answered with an error status and a body {message: <string>}
ServerSentMessage ==
    /\ ~fetchOutcome.rejected
    /\ fetchOutcome.response.status >= 400
    /\ \E i \in 1..Len(fetchOutcome.response.contentType) - 15 :
          SubSeq(fetchOutcome.response.contentType, i, i + 15) = S_ApplicationJson
    /\ fetchOutcome.response.json # <<>>
    /\ fetchOutcome.response.json[1].t = "object"
    /\ \E i \in 1..Len(fetchOutcome.response.json[1].fields) :
          /\ fetchOutcome.response.json[1].fields[i].key = <<"m", "e", "s", "s", "a", "g", "e">>
          /\ fetchOutcome.response.json[1].fields[i].value.t = "string"

ServerMessage ==
    (CHOOSE f \in {fetchOutcome.response.json[1].fields[i] :
                      i \in 1..Len(fetchOutcome.response.json[1].fields)} :
        f.key = <<"m", "e", "s", "s", "a", "g", "e">>).value.s

StatusDigits ==
    CASE fetchOutcome.response.status = 400 -> <<"4", "0", "0">>
      [] fetchOutcome.response.status = 404 -> <<"4", "0", "4">>
      [] fetchOutcome.response.status = 500 -> <<"5", "0", "0">>

MentionsFetch(s) ==
    \E i \in 1..Len(s) - 4 :
        /\ s[i] \in {"f", "F"}
        /\ s[i + 1] \in {"e", "E"}
        /\ s[i + 2] \in {"t", "T"}
        /\ s[i + 3] \in {"c", "C"}
        /\ s[i + 4] \in {"h", "H"}

C15_BannerIsServerMessage ==
    error # <<>> =>
        /\ ServerSentMessage => error[1] = ServerMessage
        /\ fetchOutcome.rejected => error[1] = S_UnableToReach

C15_BannerIsPrefixedServerMessage ==
    error # <<>> =>
        /\ ServerSentMessage =>
              error[1] = <<"R", "e", "q", "u", "e", "s", "t", " ", "f", "a", "i", "l", "e", "d",
                           " ", "(">> \o StatusDigits \o <<")", ":", " ">> \o ServerMessage
        /\ fetchOutcome.rejected =>
              error[1] = IF MentionsFetch(fetchOutcome.reason.message)
                         THEN S_UnableToReach
                         ELSE fetchOutcome.reason.message

\* a 404 with the server's message is on show
C15_Witness ==
    /\ error # <<>>
    /\ ServerSentMessage
    /\ fetchOutcome.response.status = 404
    /\ ServerMessage = S_EquipmentNotFound

(***************************************************************************)
(* C17: the record list of the client changes only as the result of a      *)
(* successful fetch of the whole list; each add, edit or delete issues one *)
(* mutating call and is followed by a reload only if that call succeeds; a *)
(* failed mutating call sets the error, issues no reload and leaves the    *)
(* list and an open form as they were; a submit issues an update to the id *)
(* of the record being edited when there is one, and a create otherwise.   *)
(***************************************************************************)
\* the answer a task holds is a success
Succeeded(task) ==
    /\ task.response # <<>>
    /\ ~task.response[1].rejected
    /\ task.response[1].response.status \in {200, 201, 204}

\* the rows of the answer a task holds, in the order they were sent
FetchedRows(task) ==
    [i \in 1..Len(task.response[1].response.json[1].fields) |->
        LET member(k) == task.response[1].response.json[1].fields[i].fields[k].value.s
        IN  [id |-> DecimalValue(member(1)), name |-> member(2), type |-> member(3),
             status |-> member(4), lastCleanedDate |-> member(5)]]

C17_ListChange ==
    equipment' # equipment =>
        \E t \in TaskIds :
            /\ tasks[t].pc = "reload"
            /\ Succeeded(tasks[t])
            /\ tasks'[t].pc = "done"
            /\ equipment' = FetchedRows(tasks[t])

C17_AfterMutation ==
    \A t \in TaskIds :
        (tasks[t].pc = "mutation" /\ tasks'[t] # tasks[t]) =>
            \/ /\ tasks[t].response = <<>>
               /\ tasks'[t] = [tasks[t] EXCEPT !.response = tasks'[t].response]
               /\ tasks'[t].response # <<>>
            \/ /\ Succeeded(tasks[t])
               /\ tasks'[t] = [tasks[t] EXCEPT !.pc = "reload", !.response = <<>>]
            \/ /\ tasks[t].response # <<>>
               /\ ~Succeeded(tasks[t])
               /\ tasks'[t].pc = "done"
               /\ error' # <<>>
               /\ equipment' = equipment
               /\ isFormVisible' = isFormVisible
               /\ editingEquipment' = editingEquipment

C17_Start ==
    \A t \in TaskIds :
        (tasks[t].pc = "unused" /\ tasks'[t].pc # "unused") =>
            \/ t = 0 /\ tasks'[t].pc = "reload"
            \/ /\ t # 0
               /\ tasks'[t].pc = "mutation"
               /\ tasks'[t].kind = "submit" =>
                     IF editingEquipment # <<>>
                     THEN tasks'[t].method = "PUT" /\ tasks'[t].id = editingEquipment[1].id
                     ELSE tasks'[t].method = "POST"
               /\ tasks'[t].kind = "delete" => tasks'[t].method = "DELETE"

C17_ReloadOnlyAfterSuccess ==
    [][C17_ListChange /\ C17_AfterMutation /\ C17_Start]_vars

\* an edit of a record that is gone has failed: the error is set and the
\* form is still open on the record
C17_Witness ==
    /\ \E t \in 1..MaxActions : tasks[t].pc = "done"
    /\ \A t \in TaskIds : tasks[t].pc \in {"done", "unused"}
    /\ error = <<<<"R", "e", "q", "u", "e", "s", "t", " ", "f", "a", "i", "l", "e", "d", " ", "(", "4", "0", "4", ")", ":", " ", "E", "q", "u", "i", "p", "m", "e", "n", "t", " ", "n", "o", "t", " ", "f", "o", "u", "n", "d", ".">>>>
    /\ isFormVisible
    /\ editingEquipment # <<>>

(***************************************************************************)
(* C18: under any interleaving of the store calls of concurrent requests   *)
(* (update: an existence read, a write and a read-back; create: an insert  *)
(* and a read-back), an update or create that answers with success returns *)
(* a record whose fields equal the payload of that request, and an update  *)
(* answers only 200, 400 or 404, never 500.                                *)
(* The handlers do not achieve this: the store calls of one request are    *)
(* not a transaction, and the read-back sees what other requests wrote.    *)
(***************************************************************************)
C18_AnswersOwnPayload ==
    \A p \in ProcIds :
        procs[p].pc = "done" =>
            /\ (procs[p].op \in {"PUT", "POST"} /\ procs[p].res.status \in {200, 201}) =>
                  /\ procs[p].res.rows[1].name = procs[p].data.name
                  /\ procs[p].res.rows[1].type = procs[p].data.type
                  /\ procs[p].res.rows[1].status = procs[p].data.status
                  /\ procs[p].res.rows[1].lastCleanedDate = procs[p].data.lastCleanedDate
            /\ procs[p].op = "PUT" => procs[p].res.status \in {200, 400, 404}

(***************************************************************************)
(* C19: with a single client and overlapping user actions, once no request *)
(* is in flight and no error is shown, the record list of the client       *)
(* equals the current contents of the store.                               *)
(* The code does not achieve this: a reload that was answered before a     *)
(* later change can be the last to be applied.                             *)
(***************************************************************************)
NoRequestInFlight ==
    /\ tasks[0].pc = "done"
    /\ \A t \in TaskIds : tasks[t].pc \in {"done", "unused"}
    /\ req = NoReq

\* the step that ends the last request leaves, when it leaves no error on
\* show, the list equal to the store
C19_ListEqualsStoreWhenQuiet ==
    [][(~NoRequestInFlight /\ NoRequestInFlight' /\ error' = <<>>) =>
          /\ {equipment'[i] : i \in 1..Len(equipment')} = store'
          /\ Len(equipment') = Cardinality(store')]_vars

(***************************************************************************)
(* C20: in every reachable state of the client the loading flag is true    *)
(* while any request (initial load, mutation or reload) is in flight and   *)
(* false once none is.                                                     *)
(* The flag is a boolean that every finishing action clears, so it is      *)
(* cleared while another action still waits.                               *)
(***************************************************************************)
SomeRequestInFlight == \E t \in TaskIds : tasks[t].pc \in {"mutation", "reload"}

C20_LoadingIffInFlight ==
    tasks[0].pc # "unused" => (loading <=> SomeRequestInFlight)

====
